---- MODULE Spec2Model ----
(***************************************************************************)
(* speakr: the transcriber service.                                        *)
(*                                                                         *)
(* The NATS subscriber owns one subscription per command subject; each     *)
(* subscription delivers its messages one at a time to handleMessage, so   *)
(* there are four handlers that run concurrently with each other.  Every   *)
(* handler calls into core.Service, which sequences calls to four ports:   *)
(* the ffmpeg Recorder (the active-session registry, guarded by a mutex),  *)
(* the MinIO object store, the OpenAI transcription adapter and the NATS   *)
(* event publisher.  One action of this module is one port call of one     *)
(* handler, together with the service code that follows it up to the next  *)
(* port call.                                                              *)
(***************************************************************************)
EXTENDS Integers, Sequences, FiniteSets, TLC

(***************************************************************************)
(* Bounds of the model.                                                    *)
(***************************************************************************)
MaxRecordings == 2      \* distinct ids uuid.New() can hand out
MaxCommands   == 3      \* command messages delivered by the bus
MaxFaults     == 1      \* failures of the environment (ffmpeg, MinIO, NATS, API)
MaxTextLen    == 1      \* characters in the text of an API response
MaxCallers    == 3      \* goroutines calling the recorder directly

(***************************************************************************)
(* Program constants.                                                      *)
(***************************************************************************)
MaxRetries == 3         \* openai_adapter.WithMaxRetries(3)
EmptyID    == 0         \* the recording_id "" (field absent from the JSON)

(***************************************************************************)
(* Values.                                                                 *)
(***************************************************************************)
UUIDs        == 1..MaxRecordings
UnknownID    == MaxRecordings + 1          \* a well-formed id never issued
Metadatas    == {"{}", "{project:alpha}"}  \* metadata maps, opaque to the service
\* tags and metadata a client attaches to a command: none, or one of each
Payloads     == {[tags |-> {}, metadata |-> "{}"],
                 [tags |-> {"meeting"}, metadata |-> "{project:alpha}"]}
Formats      == {"wav"}
AudioDatas   == {"", "UklGRiQAAABXQVZF"}    \* audio_data: absent or base64
Chars        == {" ", "a"}
Texts        == UNION {[1..n -> Chars] : n \in 0..MaxTextLen}
NoField      == "absent"
NoCmd        == [type |-> "none"]
Handlers     == {"start", "stop", "cancel", "run"}
Transcribing == {"stop", "run"}

\* A Go error is its wrap chain, outermost message first; nil is the empty chain.
Nil == <<>>

Wrap(msg, err) == <<msg>> \o err

Sentinel(err) == err[Len(err)]

VARIABLES
    recordings,       \* Recorder.recordings: recording id -> session
    objects,          \* ids whose audio is in the bucket
    publishedEvents,  \* PublishEvent calls in order, each with its outcome
    issued,           \* ids uuid.New() has returned
    delivered,        \* number of command messages delivered so far
    frame,            \* each handler's running call: position and locals
    last,             \* the call that returned to handleMessage in the latest step
    faults,           \* failures the environment has produced so far
    mu,               \* Recorder.mu: the goroutine holding it, or Unlocked
    callers,          \* goroutines calling the recorder: position and locals
    rows,             \* table transcriptions: recording_id -> row
    outcome,          \* the embedder operation that returned in the latest step
    searched,         \* the Search call that returned in the latest step
    adapterCall,      \* an adapter's TranscribeAudio / GenerateEmbedding call
    capturing,        \* ids whose ffmpeg process runs under a live recordCtx
    rootCancelled,    \* main's cancel() has been called
    response,         \* the HTTP response queryHandler wrote last
    correlated,       \* the correlation ids of a call and of the call it chains into
    minted            \* ids getCorrelationID has generated

vars == <<recordings, objects, publishedEvents, issued, delivered,
          frame, last, faults, mu, callers, rows, outcome, searched,
          adapterCall, capturing, rootCancelled, response, correlated,
          minted>>

\* What only the correlation ids of a chain of calls change.
corrVars == <<correlated, minted>>

\* What only a call of an OpenAI adapter changes.
adapterVars == <<adapterCall>>

\* What only the query service changes.
queryVars == <<searched, response>>

\* What the transcriber leaves alone.
embedderVars == <<rows, outcome>>

\* What the embedding service leaves alone.
transcriberVars == <<recordings, objects, publishedEvents, issued, delivered,
                     frame, last, faults>>

\* What the command handlers of the service leave alone.
recorderVars == <<mu, callers, capturing, rootCancelled>>

\* A handler between messages.  calls lists the port calls made so far for
\* the message being handled.
IdleFrame ==
    [pc |-> "idle", cmd |-> NoCmd, tcmd |-> NoCmd, recordingID |-> NoField,
     audioFilePath |-> NoField, transcribedText |-> NoField,
     failure |-> NoField, err |-> Nil, calls |-> <<>>]

\* ports.VectorRecord with every field at its zero value.
NoRecord ==
    [recording_id |-> EmptyID, transcribed_text |-> <<>>, tags |-> {},
     embedding |-> <<>>]

\* No embedder operation has returned in the latest step.
NoOperation ==
    [op |-> "none", recordingID |-> EmptyID, transcribedText |-> <<>>,
     tags |-> {}, calls |-> <<>>, err |-> Nil, record |-> NoRecord]

\* core.QueryRequest with every field at its zero value.
NoRequest == [query_text |-> <<>>, filter_tags |-> {}, limit |-> 0]

\* No Search call has returned in the latest step.
NoSearch ==
    [op |-> "none", req |-> NoRequest, calls |-> <<>>, results |-> <<>>,
     err |-> Nil]

\* ctx.Value("correlation_id") == nil
NoCorrelation == 0

\* No chain of calls is under way.  ctx is the value of correlation_id in
\* the context the caller hands on.
NoChain ==
    [service |-> "none", pc |-> "idle", inbound |-> NoCorrelation,
     ctx |-> NoCorrelation, caller |-> NoCorrelation,
     callee |-> NoCorrelation]

\* queryHandler has written no response.
NoResponse == [status |-> 0, count |-> 0, err |-> Nil]

\* sync.Mutex: its zero value is unlocked.
Unlocked == 0
Callers  == 1..MaxCallers

\* A goroutine outside the recorder.  exists is what its lookup found.
IdleCaller ==
    [pc |-> "idle", op |-> NoField, recordingID |-> NoField,
     exists |-> FALSE, err |-> Nil]

\* No call of an adapter is under way or has returned.  tried lists the
\* attempts made so far, each with what it returned.
NoAdapterCall ==
    [adapter |-> "none", maxRetries |-> 0, attempt |-> 0, lastErr |-> Nil,
     tried |-> <<>>, pc |-> "idle", value |-> <<>>, err |-> Nil,
     readErr |-> Nil, audioBytes |-> 0, text |-> <<>>]

\* What handleMessage knows when a call returns: the handler, its command,
\* the port calls the call made, and the error it returned.
NoReturn == [handler |-> "none", cmd |-> NoCmd, calls |-> <<>>, err |-> Nil]

Init ==
    /\ recordings = [i \in {} |-> NoField]
    /\ objects = {}
    /\ publishedEvents = <<>>
    /\ issued = {}
    /\ delivered = 0
    /\ frame = [h \in Handlers |-> IdleFrame]
    /\ last = NoReturn
    /\ faults = 0
    /\ mu = Unlocked
    /\ callers = [c \in Callers |-> IdleCaller]
    /\ rows = [i \in {} |-> NoRecord]
    /\ outcome = NoOperation
    /\ searched = NoSearch
    /\ adapterCall = NoAdapterCall
    /\ capturing = {}
    /\ rootCancelled = FALSE
    /\ response = NoResponse
    /\ correlated = NoChain
    /\ minted = {}

(***************************************************************************)
(* ffmpeg_adapter.Recorder: every method runs under r.mu, so each is one   *)
(* atomic operator on the registry.                                        *)
(***************************************************************************)
ErrRecordingAlreadyExists == <<"ErrRecordingAlreadyExists">>
ErrRecordingNotFound      == <<"ErrRecordingNotFound">>
ErrRecordingFileNotFound  == <<"ErrRecordingFileNotFound">>

\* filepath.Join(TempDir, recordingID + "." + format)
Session(recordingID, format) == [filePath |-> <<recordingID, format>>]

Remove(recs, recordingID) ==
    [i \in (DOMAIN recs) \ {recordingID} |-> recs[i]]

\* Faulty variants of the recorder, for showing that the properties below
\* depend on its checks: a start that overwrites an active session, a stop
\* that keeps the session, a cancel that accepts any id.
RecorderStartRecordingOverwrites(recs, recordingID, format, ffmpegStarts) ==
    IF ~ffmpegStarts
    THEN [recordings |-> recs,
          err |-> Wrap("failed to start ffmpeg recording", <<"exec">>)]
    ELSE [recordings |->
              [i \in (DOMAIN recs) \cup {recordingID} |->
                  IF i = recordingID THEN Session(recordingID, format) ELSE recs[i]],
          err |-> Nil]

RecorderStartRecordingLeavesSession(recs, recordingID, format, ffmpegStarts) ==
    IF recordingID \in DOMAIN recs
    THEN [recordings |-> recs, err |-> ErrRecordingAlreadyExists]
    ELSE [recordings |->
              [i \in (DOMAIN recs) \cup {recordingID} |->
                  IF i = recordingID THEN Session(recordingID, format) ELSE recs[i]],
          err |-> IF ffmpegStarts THEN Nil
                  ELSE Wrap("failed to start ffmpeg recording", <<"exec">>)]

RecorderStopRecordingKeepsSession(recs, recordingID, file) ==
    IF recordingID \notin DOMAIN recs
    THEN [recordings |-> recs, audio |-> NoField, err |-> ErrRecordingNotFound]
    ELSE [recordings |-> recs, audio |-> recs[recordingID].filePath, err |-> Nil]

RecorderCancelRecordingKeepsSession(recs, recordingID) ==
    IF recordingID \notin DOMAIN recs
    THEN [recordings |-> recs, err |-> ErrRecordingNotFound]
    ELSE [recordings |-> recs, err |-> Nil]

RecorderCancelRecordingAnyID(recs, recordingID) ==
    [recordings |-> Remove(recs, recordingID), err |-> Nil]

\* ffmpegStarts: whether cmd.Start() succeeds
RecorderStartRecording(recs, recordingID, format, ffmpegStarts) ==
    IF recordingID \in DOMAIN recs
    THEN [recordings |-> recs, err |-> ErrRecordingAlreadyExists]
    ELSE IF ~ffmpegStarts
    THEN [recordings |-> recs,
          err |-> Wrap("failed to start ffmpeg recording", <<"exec">>)]
    ELSE [recordings |->
              [i \in (DOMAIN recs) \cup {recordingID} |->
                  IF i = recordingID THEN Session(recordingID, format) ELSE recs[i]],
          err |-> Nil]

\* A stop that takes the session out of the registry only once the recorded
\* file was found and opened.
RecorderStopRecordingDeletesOnSuccess(recs, recordingID, file) ==
    IF recordingID \notin DOMAIN recs
    THEN [recordings |-> recs, audio |-> NoField, err |-> ErrRecordingNotFound]
    ELSE IF file = "missing"
    THEN [recordings |-> recs, audio |-> NoField,
          err |-> ErrRecordingFileNotFound]
    ELSE IF file = "unreadable"
    THEN [recordings |-> recs, audio |-> NoField,
          err |-> Wrap("failed to open recording file", <<"open">>)]
    ELSE [recordings |-> Remove(recs, recordingID),
          audio |-> recs[recordingID].filePath, err |-> Nil]

FileStates == {"ok", "missing", "unreadable"}

\* file: what os.Stat / os.Open find at session.filePath after ffmpeg exits
RecorderStopRecording(recs, recordingID, file) ==
    IF recordingID \notin DOMAIN recs
    THEN [recordings |-> recs, audio |-> NoField, err |-> ErrRecordingNotFound]
    ELSE IF file = "missing"
    THEN [recordings |-> Remove(recs, recordingID), audio |-> NoField,
          err |-> ErrRecordingFileNotFound]
    ELSE IF file = "unreadable"
    THEN [recordings |-> Remove(recs, recordingID), audio |-> NoField,
          err |-> Wrap("failed to open recording file", <<"open">>)]
    ELSE [recordings |-> Remove(recs, recordingID),
          audio |-> recs[recordingID].filePath, err |-> Nil]

RecorderCancelRecording(recs, recordingID) ==
    IF recordingID \notin DOMAIN recs
    THEN [recordings |-> recs, err |-> ErrRecordingNotFound]
    ELSE [recordings |-> Remove(recs, recordingID), err |-> Nil]

(***************************************************************************)
(* The recorder under concurrent callers.  Each method locks r.mu, looks   *)
(* the id up, updates the registry according to what the lookup found and  *)
(* unlocks on return; the lookup and the update are separate steps here,   *)
(* so that the mutex is what keeps them together.                          *)
(***************************************************************************)
RecorderOps == {"StartRecording", "StopRecording", "CancelRecording"}

\* A lock that admits everybody.
MutexIgnored(m) == TRUE

\* r.mu.Lock() returns only when nobody holds the mutex.
MutexUnlocked(m) == m = Unlocked

\* r.mu.Lock() and the lookup r.recordings[recordingID].
Recorder_Lock(c) ==
    /\ callers[c].pc = "idle"
    /\ MutexUnlocked(mu)
    /\ \E op \in RecorderOps, id \in UUIDs :
          callers' = [callers EXCEPT ![c] =
              [pc |-> "locked", op |-> op, recordingID |-> id,
               exists |-> id \in DOMAIN recordings, err |-> Nil]]
    /\ mu' = c
    /\ UNCHANGED <<recordings, capturing, rootCancelled, objects,
                   publishedEvents, issued, delivered, frame, last, faults,
                   embedderVars, queryVars, adapterVars,
                   corrVars>>

\* The rest of the method and the deferred r.mu.Unlock().
Recorder_Unlock(c) ==
    /\ callers[c].pc = "locked"
    /\ LET id == callers[c].recordingID IN
       \E ffmpegStarts \in BOOLEAN :
          LET err ==
                  IF callers[c].op = "StartRecording"
                  THEN IF callers[c].exists THEN ErrRecordingAlreadyExists
                       ELSE IF ~ffmpegStarts
                       THEN Wrap("failed to start ffmpeg recording", <<"exec">>)
                       ELSE Nil
                  ELSE IF ~callers[c].exists THEN ErrRecordingNotFound
                       ELSE Nil
          IN  /\ recordings' =
                     IF callers[c].op = "StartRecording"
                     THEN IF err # Nil THEN recordings
                          ELSE [i \in (DOMAIN recordings) \cup {id} |->
                                   IF i = id THEN Session(id, "wav")
                                   ELSE recordings[i]]
                     ELSE IF err # Nil THEN recordings
                          ELSE Remove(recordings, id)
              \* cmd.Start() under recordCtx; session.cancel() and cmd.Wait()
              /\ capturing' =
                     IF err # Nil THEN capturing
                     ELSE IF callers[c].op = "StartRecording"
                     THEN capturing \cup {id}
                     ELSE capturing \ {id}
              /\ callers' = [callers EXCEPT ![c] =
                     [@ EXCEPT !.pc = "done", !.err = err]]
    /\ mu' = Unlocked
    /\ UNCHANGED <<rootCancelled, objects, publishedEvents, issued, delivered,
                   frame, last, faults, embedderVars, queryVars, adapterVars,
                   corrVars>>

\* The deadline of a session's recordCtx passes, config.RecordTimeout after
\* the start: exec kills the ffmpeg process.  Nothing in the recorder waits
\* for the deadline, and r.recordings is left as it is.
Recorder_RecordTimeout ==
    /\ \E id \in capturing : capturing' = capturing \ {id}
    /\ UNCHANGED <<recordings, mu, callers, rootCancelled, objects,
                   publishedEvents, issued, delivered, frame, last, faults,
                   embedderVars, queryVars, adapterVars,
                   corrVars>>

\* The context handleMessage gives every handler, and so the parent of every
\* recordCtx: context.WithValue(context.Background(), ...).  Subscribe takes
\* main's ctx and does not use it.
HandlerContextParent == "Background"

\* cancel() on main's ctx cancels the contexts derived from it.
CancelledWithRoot(parent) == parent = "root"

\* main after SIGINT / SIGTERM: cancel().  A capture ends with it when its
\* recordCtx descends from main's ctx.
Main_Cancel ==
    /\ ~rootCancelled
    /\ rootCancelled' = TRUE
    /\ capturing' =
          IF CancelledWithRoot(HandlerContextParent) THEN {} ELSE capturing
    /\ UNCHANGED <<recordings, mu, callers, objects, publishedEvents, issued,
                   delivered, frame, last, faults, embedderVars, queryVars,
                   adapterVars,
                   corrVars>>

RecorderNext ==
    \/ \E c \in Callers : Recorder_Lock(c) \/ Recorder_Unlock(c)
    \/ Recorder_RecordTimeout
    \/ Main_Cancel

RecorderSpec == Init /\ [][RecorderNext]_vars

(***************************************************************************)
(* minio_adapter.Storage.                                                  *)
(***************************************************************************)
ErrObjectNotFound == <<"ErrObjectNotFound">>
ErrAccessDenied   == <<"ErrAccessDenied">>

StoreFaults    == {"none", "AccessDenied", "other"}
RetrieveFaults == {"none", "AccessDenied", "other", "stat"}

\* "s3://<bucket>/recordings/<id>.wav"
ObjectPath(recordingID) == <<"s3", recordingID>>

\* A faulty variant of the object store: a StoreAudio that reports success
\* without keeping the object.
StorageStoreAudioDrops(objs, recordingID, fault) ==
    [objects |-> objs, path |-> ObjectPath(recordingID), err |-> Nil]

StorageStoreAudio(objs, recordingID, fault) ==
    IF fault = "AccessDenied"
    THEN [objects |-> objs, path |-> NoField, err |-> ErrAccessDenied]
    ELSE IF fault # "none"
    THEN [objects |-> objs, path |-> NoField,
          err |-> Wrap("failed to store audio file", <<"minio">>)]
    ELSE [objects |-> objs \cup {recordingID},
          path |-> ObjectPath(recordingID), err |-> Nil]

\* A retrieval that looks under a key nothing was stored under.
StorageRetrieveAudioMisses(objs, recordingID, fault) == ErrObjectNotFound

StorageRetrieveAudio(objs, recordingID, fault) ==
    IF fault = "AccessDenied"
    THEN ErrAccessDenied
    ELSE IF fault = "other"
    THEN Wrap("failed to retrieve audio file", <<"minio">>)
    ELSE IF fault = "stat" \/ recordingID \notin objs
    THEN ErrObjectNotFound
    ELSE Nil

(***************************************************************************)
(* nats_adapter.Publisher.                                                 *)
(***************************************************************************)
Event(subject, recordingID, tags, metadata, body) ==
    [subject |-> subject, recording_id |-> recordingID, tags |-> tags,
     metadata |-> metadata, body |-> body]

\* natsUp: whether conn.Publish accepts the message
PublisherPublishEvent(log, event, natsUp) ==
    [log |-> Append(log, [event |-> event, acked |-> natsUp]),
     err |-> IF natsUp THEN Nil ELSE Wrap("failed to publish event", <<"nats">>)]

\* The events the bus carries, in order.
Bus == SelectSeq(publishedEvents, LAMBDA p : p.acked)

\* Faulty variants of the service's events and return path: events that
\* lose the command's tags and metadata, a call that swallows its error.
FailedEventBare(c, failure) ==
    Event("transcription.failed", c.recording_id, {}, "{}", failure)

SucceededEventBare(c, transcribedText) ==
    Event("transcription.succeeded", c.recording_id, {}, "{}", transcribedText)

ReturnedNil(h, err) == Nil

(***************************************************************************)
(* openai_adapter.Transcriber.                                             *)
(***************************************************************************)
ErrAPIKeyInvalid      == <<"ErrAPIKeyInvalid">>
ErrQuotaExceeded      == <<"ErrQuotaExceeded">>
ErrRequestTimeout     == <<"ErrRequestTimeout">>
ErrServiceUnavailable == <<"ErrServiceUnavailable">>
ErrEmptyTranscription == <<"ErrEmptyTranscription">>

\* What one HTTP exchange with the API can give: a status (0: the request
\* itself failed because the context ended; 401 not retried; 503 retried, as
\* 429 is) and, with 200, the "text" field.
Responses ==
    [status : {200}, text : Texts] \cup [status : {0, 401, 503}, text : {<<>>}]

RECURSIVE TrimLeft(_)
TrimLeft(s) ==
    IF s # <<>> /\ Head(s) = " " THEN TrimLeft(Tail(s)) ELSE s

RECURSIVE TrimRight(_)
TrimRight(s) ==
    IF s # <<>> /\ s[Len(s)] = " " THEN TrimRight(SubSeq(s, 1, Len(s) - 1)) ELSE s

\* strings.TrimSpace
TrimSpace(s) == TrimRight(TrimLeft(s))

handleHTTPError(statusCode) ==
    IF statusCode = 401 THEN ErrAPIKeyInvalid
    ELSE IF statusCode = 429 THEN ErrQuotaExceeded
    ELSE IF statusCode \in {500, 502, 503} THEN ErrServiceUnavailable
    ELSE <<"unexpected status code">>

\* One attempt.  Status -1: the request failed with the context still live
\* (the client's own timeout, a refused connection).
transcribeWithRetry(resp) ==
    IF resp.status = 0
    THEN [text |-> <<>>, err |-> ErrRequestTimeout]
    ELSE IF resp.status = -1
    THEN [text |-> <<>>, err |-> Wrap("failed to make request", <<"net/http">>)]
    ELSE IF resp.status # 200
    THEN [text |-> <<>>, err |-> handleHTTPError(resp.status)]
    ELSE IF resp.text = <<>>
    THEN [text |-> <<>>, err |-> ErrEmptyTranscription]
    ELSE [text |-> TrimSpace(resp.text), err |-> Nil]

\* A classification under which every error is retried.
NothingIsTerminal(err) == FALSE

isNonRetryableError(err) ==
    err \in {ErrAPIKeyInvalid, <<"ErrAPIKeyNotSet">>, <<"ErrAudioTooLarge">>,
             <<"ErrInvalidAudioFormat">>}

\* The attempt loop from attempt number `attempt` on, lastErr being the error
\* of the attempt before: every result the loop can end with, over all the
\* responses the API may give.
RECURSIVE TranscribeLoop(_, _)
TranscribeLoop(attempt, lastErr) ==
    IF attempt > MaxRetries
    THEN {[text |-> <<>>, attempts |-> attempt - 1,
           err |-> Wrap("transcription failed after attempts", lastErr)]}
    ELSE UNION {
        LET r == transcribeWithRetry(resp) IN
        IF r.err = Nil
        THEN {[text |-> r.text, attempts |-> attempt, err |-> Nil]}
        ELSE IF isNonRetryableError(r.err)
        THEN {[text |-> <<>>, attempts |-> attempt,
               err |-> Wrap("transcription failed after attempts", r.err)]}
        ELSE TranscribeLoop(attempt + 1, r.err)
        : resp \in Responses }

\* Transcriber.TranscribeAudio on audio within the size limit.
TranscriberTranscribeAudio == TranscribeLoop(1, Nil)

(***************************************************************************)
(* Commands on the bus.  A recording id is a random UUID, so a client can  *)
(* name one only after recording.started announced it; besides those a     *)
(* command may carry an id the service never issued.                       *)
(***************************************************************************)
KnownIDs ==
    {Bus[i].event.recording_id :
        i \in {j \in 1..Len(Bus) : Bus[j].event.subject = "recording.started"}}

StartRecordingCommands ==
    {[type |-> "start", output_format |-> f, tags |-> p.tags,
      metadata |-> p.metadata] : f \in Formats, p \in Payloads}

StopRecordingCommands ==
    [type : {"stop"}, recording_id : KnownIDs \cup {UnknownID},
     transcribe_on_stop : BOOLEAN, metadata : Metadatas]

CancelRecordingCommands ==
    [type : {"cancel"}, recording_id : KnownIDs \cup {UnknownID}]

\* Tags and metadata are varied on the commands that name a stored recording
\* only; the others are told apart by recording_id and audio_data.
TranscriptionCommands ==
    {c \in {[type |-> "run", recording_id |-> id, audio_data |-> a,
             tags |-> p.tags, metadata |-> p.metadata] :
                id \in KnownIDs \cup {EmptyID, UnknownID}, a \in AudioDatas,
                p \in Payloads} :
        (c.recording_id = EmptyID \/ c.audio_data # "") => c.tags = {}}

\* uuid.New(): an id not handed out before (the ids are interchangeable, so
\* the next unused one).  The one collision kept possible is with a session
\* that is still active, the case Recorder.StartRecording guards against.
uuidNew ==
    {id \in UUIDs \ issued : \A other \in UUIDs \ issued : id <= other}
        \cup DOMAIN recordings

(***************************************************************************)
(* core.Service, one handler step per action.  A subscription hands its    *)
(* handler the next message once the previous call has returned.           *)
(***************************************************************************)
Ready(h) ==
    /\ frame[h].pc = "idle"
    /\ delivered < MaxCommands

\* f with one more port call made: the port, its argument, what it returned.
Called(f, port, arg, ret) ==
    [f EXCEPT !.calls = Append(@, [port |-> port, arg |-> arg, ret |-> ret])]

\* The call whose frame is f returns err to handleMessage, which logs the
\* outcome and is done with the message.
Finish(h, f, err) ==
    /\ frame' = [frame EXCEPT ![h] = IdleFrame]
    /\ last' = [handler |-> h, cmd |-> f.cmd, calls |-> f.calls, err |-> err]
    /\ UNCHANGED <<recorderVars, embedderVars, queryVars, adapterVars,
                   corrVars>>

\* The call goes on, f its frame from here.
Goto(h, f) ==
    /\ frame' = [frame EXCEPT ![h] = f]
    /\ last' = NoReturn
    /\ UNCHANGED <<recorderVars, embedderVars, queryVars, adapterVars,
                   corrVars>>

\* The environment fails at most MaxFaults times.
Inject(failed) ==
    /\ failed => faults < MaxFaults
    /\ faults' = IF failed THEN faults + 1 ELSE faults

\* StartRecording up to and including audioRecorder.StartRecording
StartRecording_Record ==
    /\ Ready("start")
    /\ \E c \in StartRecordingCommands, id \in uuidNew, ffmpegStarts \in BOOLEAN :
        LET r == RecorderStartRecording(recordings, id, c.output_format, ffmpegStarts)
            f == Called([IdleFrame EXCEPT !.cmd = c, !.recordingID = id],
                        "AudioRecorder.StartRecording", id, [err |-> r.err]) IN
        /\ id \in DOMAIN recordings => ffmpegStarts
        /\ Inject(~ffmpegStarts)
        /\ delivered' = delivered + 1
        /\ issued' = issued \cup {id}
        /\ recordings' = r.recordings
        /\ IF r.err # Nil
           THEN Finish("start", f, Wrap("failed to start recording", r.err))
           ELSE Goto("start", [f EXCEPT !.pc = "publish_started"])
    /\ UNCHANGED <<objects, publishedEvents>>

StartedEvent(recordingID, c) ==
    Event("recording.started", recordingID, c.tags, c.metadata, NoField)

\* A publish step that cancels the recording again when the event could not
\* be published.
StartRecording_PublishRollsBack ==
    /\ frame["start"].pc = "publish_started"
    /\ \E natsUp \in BOOLEAN :
        LET e == StartedEvent(frame["start"].recordingID, frame["start"].cmd)
            p == PublisherPublishEvent(publishedEvents, e, natsUp)
            f == Called(frame["start"], "EventPublisher.PublishEvent", e, [err |-> p.err]) IN
        /\ Inject(~natsUp)
        /\ publishedEvents' = p.log
        /\ recordings' = IF p.err # Nil
                         THEN Remove(recordings, frame["start"].recordingID)
                         ELSE recordings
        /\ IF p.err # Nil
           THEN Finish("start", f, Wrap("failed to publish recording started event", p.err))
           ELSE Finish("start", f, Nil)
    /\ UNCHANGED <<objects, issued, delivered>>

StartRecording_Publish ==
    /\ frame["start"].pc = "publish_started"
    /\ \E natsUp \in BOOLEAN :
        LET e == StartedEvent(frame["start"].recordingID, frame["start"].cmd)
            p == PublisherPublishEvent(publishedEvents, e, natsUp)
            f == Called(frame["start"], "EventPublisher.PublishEvent", e, [err |-> p.err]) IN
        /\ Inject(~natsUp)
        /\ publishedEvents' = p.log
        /\ IF p.err # Nil
           THEN Finish("start", f, Wrap("failed to publish recording started event", p.err))
           ELSE Finish("start", f, Nil)
    /\ UNCHANGED <<recordings, objects, issued, delivered>>

\* What TranscribeAudio's error becomes on its way back to handleMessage:
\* StopRecording wraps it, the transcription.run handler returns it as is.
Returned(h, err) ==
    IF h = "stop" /\ err # Nil
    THEN Wrap("failed to transcribe audio after stop", err)
    ELSE err

\* The input mode TranscribeAudio resolves for a command.
InputMode(c) ==
    IF c.recording_id # EmptyID THEN "stored"
    ELSE IF c.audio_data # "" THEN "inline"
    ELSE "none"

\* TranscribeAudio from its entry to its first port call; f is the caller's
\* frame with tcmd the command.
TranscribeAudio_Enter(h, f) ==
    IF InputMode(f.tcmd) = "stored"
    THEN Goto(h, [f EXCEPT !.pc = "retrieve"])
    ELSE IF InputMode(f.tcmd) = "inline"
    THEN Finish(h, f, Returned(h, <<"base64 audio data not yet implemented">>))
    ELSE Finish(h, f, Returned(h, <<"neither recording_id nor audio_data provided">>))

\* StopRecording up to and including audioRecorder.StopRecording
StopRecording_Stop ==
    /\ Ready("stop")
    /\ \E c \in StopRecordingCommands, file \in FileStates :
        LET r == RecorderStopRecording(recordings, c.recording_id, file)
            f == Called([IdleFrame EXCEPT !.cmd = c],
                        "AudioRecorder.StopRecording", c.recording_id,
                        [err |-> r.err]) IN
        /\ c.recording_id \notin DOMAIN recordings => file = "ok"
        /\ Inject(file # "ok")
        /\ delivered' = delivered + 1
        /\ recordings' = r.recordings
        /\ IF r.err # Nil
           THEN Finish("stop", f, Wrap("failed to stop recording", r.err))
           ELSE Goto("stop", [f EXCEPT !.pc = "store"])
    /\ UNCHANGED <<objects, publishedEvents, issued>>

\* A faulty variant of the store step: recording.finished is published for
\* audio that was never handed to the object store.
StopRecording_StoreSkipped ==
    /\ frame["stop"].pc = "store"
    /\ Inject(FALSE)
    /\ Goto("stop", [frame["stop"] EXCEPT !.pc = "publish_finished",
                         !.audioFilePath = ObjectPath(frame["stop"].cmd.recording_id)])
    /\ UNCHANGED <<recordings, objects, publishedEvents, issued, delivered>>

StopRecording_Store ==
    /\ frame["stop"].pc = "store"
    /\ \E fault \in StoreFaults :
        LET id == frame["stop"].cmd.recording_id
            r == StorageStoreAudio(objects, id, fault)
            f == Called(frame["stop"], "ObjectStore.StoreAudio", id, [err |-> r.err]) IN
        /\ Inject(fault # "none")
        /\ objects' = r.objects
        /\ IF r.err # Nil
           THEN Finish("stop", f, Wrap("failed to store audio file", r.err))
           ELSE Goto("stop", [f EXCEPT !.pc = "publish_finished",
                                       !.audioFilePath = r.path])
    /\ UNCHANGED <<recordings, publishedEvents, issued, delivered>>

FinishedEvent(c, audioFilePath) ==
    Event("recording.finished", c.recording_id, {}, c.metadata, audioFilePath)

\* The TranscriptionCommand StopRecording builds when transcribe_on_stop is set.
TranscribeOnStopCommand(c) ==
    [type |-> "run", recording_id |-> c.recording_id, audio_data |-> "",
     tags |-> {}, metadata |-> c.metadata]

StopRecording_Publish ==
    /\ frame["stop"].pc = "publish_finished"
    /\ \E natsUp \in BOOLEAN :
        LET c == frame["stop"].cmd
            e == FinishedEvent(c, frame["stop"].audioFilePath)
            p == PublisherPublishEvent(publishedEvents, e, natsUp)
            f == Called(frame["stop"], "EventPublisher.PublishEvent", e, [err |-> p.err]) IN
        /\ Inject(~natsUp)
        /\ publishedEvents' = p.log
        /\ IF p.err # Nil
           THEN Finish("stop", f, Wrap("failed to publish recording finished event", p.err))
           ELSE IF c.transcribe_on_stop
           THEN TranscribeAudio_Enter("stop", [f EXCEPT !.tcmd = TranscribeOnStopCommand(c)])
           ELSE Finish("stop", f, Nil)
    /\ UNCHANGED <<recordings, objects, issued, delivered>>

\* CancelRecording up to and including audioRecorder.CancelRecording
CancelRecording_Cancel ==
    /\ Ready("cancel")
    /\ \E c \in CancelRecordingCommands :
        LET r == RecorderCancelRecording(recordings, c.recording_id)
            f == Called([IdleFrame EXCEPT !.cmd = c],
                        "AudioRecorder.CancelRecording", c.recording_id,
                        [err |-> r.err]) IN
        /\ delivered' = delivered + 1
        /\ recordings' = r.recordings
        /\ IF r.err # Nil
           THEN Finish("cancel", f, Wrap("failed to cancel recording", r.err))
           ELSE Goto("cancel", [f EXCEPT !.pc = "publish_cancelled"])
    /\ UNCHANGED <<objects, publishedEvents, issued, faults>>

CancelledEvent(c) ==
    Event("recording.cancelled", c.recording_id, NoField, NoField, NoField)

CancelRecording_Publish ==
    /\ frame["cancel"].pc = "publish_cancelled"
    /\ \E natsUp \in BOOLEAN :
        LET e == CancelledEvent(frame["cancel"].cmd)
            p == PublisherPublishEvent(publishedEvents, e, natsUp)
            f == Called(frame["cancel"], "EventPublisher.PublishEvent", e, [err |-> p.err]) IN
        /\ Inject(~natsUp)
        /\ publishedEvents' = p.log
        /\ IF p.err # Nil
           THEN Finish("cancel", f, Wrap("failed to publish recording cancelled event", p.err))
           ELSE Finish("cancel", f, Nil)
    /\ UNCHANGED <<recordings, objects, issued, delivered>>

\* handleTranscription: a transcription.run message enters TranscribeAudio
TranscribeAudio_Run ==
    /\ Ready("run")
    /\ \E c \in TranscriptionCommands :
        /\ delivered' = delivered + 1
        /\ TranscribeAudio_Enter("run", [IdleFrame EXCEPT !.cmd = c, !.tcmd = c])
    /\ UNCHANGED <<recordings, objects, publishedEvents, issued, faults>>

\* objectStore.RetrieveAudio
TranscribeAudio_Retrieve(h) ==
    /\ frame[h].pc = "retrieve"
    /\ \E fault \in RetrieveFaults :
        LET id == frame[h].tcmd.recording_id
            err == StorageRetrieveAudio(objects, id, fault)
            f == Called(frame[h], "ObjectStore.RetrieveAudio", id, [err |-> err]) IN
        /\ Inject(fault # "none")
        /\ IF err # Nil
           THEN Goto(h, [f EXCEPT !.pc = "publish_failed",
                                  !.failure = <<"Failed to retrieve audio file">>,
                                  !.err = Wrap("failed to retrieve audio file", err)])
           ELSE Goto(h, [f EXCEPT !.pc = "transcribe"])
    /\ UNCHANGED <<recordings, objects, publishedEvents, issued, delivered>>

\* transcriptionSvc.TranscribeAudio
TranscribeAudio_Transcribe(h) ==
    /\ frame[h].pc = "transcribe"
    /\ \E r \in TranscriberTranscribeAudio :
        LET f == Called(frame[h], "TranscriptionService.TranscribeAudio", "wav",
                       [text |-> r.text, err |-> r.err]) IN
        /\ Inject(r.err # Nil)
        /\ IF r.err # Nil
           THEN Goto(h, [f EXCEPT !.pc = "publish_failed",
                                  !.failure = r.err,
                                  !.err = Wrap("failed to transcribe audio", r.err)])
           ELSE Goto(h, [f EXCEPT !.pc = "publish_succeeded",
                                  !.transcribedText = r.text])
    /\ UNCHANGED <<recordings, objects, publishedEvents, issued, delivered>>

FailedEvent(c, failure) ==
    Event("transcription.failed", c.recording_id, c.tags, c.metadata, failure)

\* The failure event; PublishEvent's own error is dropped.
TranscribeAudio_PublishFailed(h) ==
    /\ frame[h].pc = "publish_failed"
    /\ \E natsUp \in BOOLEAN :
        LET e == FailedEvent(frame[h].tcmd, frame[h].failure)
            p == PublisherPublishEvent(publishedEvents, e, natsUp)
            f == Called(frame[h], "EventPublisher.PublishEvent", e, [err |-> p.err]) IN
        /\ Inject(~natsUp)
        /\ publishedEvents' = p.log
        /\ Finish(h, f, Returned(h, frame[h].err))
    /\ UNCHANGED <<recordings, objects, issued, delivered>>

SucceededEvent(c, transcribedText) ==
    Event("transcription.succeeded", c.recording_id, c.tags, c.metadata,
          transcribedText)

TranscribeAudio_PublishSucceeded(h) ==
    /\ frame[h].pc = "publish_succeeded"
    /\ \E natsUp \in BOOLEAN :
        LET e == SucceededEvent(frame[h].tcmd, frame[h].transcribedText)
            p == PublisherPublishEvent(publishedEvents, e, natsUp)
            f == Called(frame[h], "EventPublisher.PublishEvent", e, [err |-> p.err]) IN
        /\ Inject(~natsUp)
        /\ publishedEvents' = p.log
        /\ IF p.err # Nil
           THEN Finish(h, f, Returned(h,
                    Wrap("failed to publish transcription succeeded event", p.err)))
           ELSE Finish(h, f, Nil)
    /\ UNCHANGED <<recordings, objects, issued, delivered>>

\* A subscriber that answers a payload it cannot parse with a
\* transcription.failed event.
Subscriber_UnmarshalAnswered ==
    /\ \E h \in Handlers :
          /\ Ready(h)
          /\ last' = [handler |-> "unmarshal",
                      cmd |-> [type |-> "malformed", subject |-> h],
                      calls |-> <<>>,
                      err |-> Wrap("failed to unmarshal command", <<"json">>)]
    /\ delivered' = delivered + 1
    /\ publishedEvents' =
          Append(publishedEvents,
                 [event |-> Event("transcription.failed", UnknownID, {}, "{}",
                                  <<"json">>),
                  acked |-> TRUE])
    /\ UNCHANGED <<recordings, objects, issued, frame, faults, recorderVars,
                   embedderVars, queryVars, adapterVars, corrVars>>

\* handleMessage with a payload json.Unmarshal rejects: the handler of the
\* subject returns the error before it calls the service.
Subscriber_UnmarshalFails ==
    /\ \E h \in Handlers :
          /\ Ready(h)
          /\ last' = [handler |-> "unmarshal",
                      cmd |-> [type |-> "malformed", subject |-> h],
                      calls |-> <<>>,
                      err |-> Wrap("failed to unmarshal command", <<"json">>)]
    /\ delivered' = delivered + 1
    /\ UNCHANGED <<recordings, objects, publishedEvents, issued, frame, faults,
                   recorderVars, embedderVars, queryVars, adapterVars,
                   corrVars>>

Next ==
    \/ StartRecording_Record
    \/ StartRecording_Publish
    \/ StopRecording_Stop
    \/ StopRecording_Store
    \/ StopRecording_Publish
    \/ CancelRecording_Cancel
    \/ CancelRecording_Publish
    \/ TranscribeAudio_Run
    \/ \E h \in Transcribing : TranscribeAudio_Retrieve(h)
    \/ \E h \in Transcribing : TranscribeAudio_Transcribe(h)
    \/ \E h \in Transcribing : TranscribeAudio_PublishFailed(h)
    \/ \E h \in Transcribing : TranscribeAudio_PublishSucceeded(h)
    \/ Subscriber_UnmarshalFails

Spec == Init /\ [][Next]_vars

(***************************************************************************)
(* Vocabulary of the properties.  A PublishEvent call counts as publishing *)
(* the event; Bus holds the events NATS accepted.                          *)
(***************************************************************************)
AllIDs == UUIDs \cup {UnknownID}

\* The events of the PublishEvent calls in a call log, in order.
EventsIn(made) ==
    LET pub == SelectSeq(made, LAMBDA c : c.port = "EventPublisher.PublishEvent")
    IN  [i \in 1..Len(pub) |-> pub[i].arg]

Published == [i \in 1..Len(publishedEvents) |-> publishedEvents[i].event]

OnBus == [i \in 1..Len(Bus) |-> Bus[i].event]

\* Positions in a sequence of events of those with a subject and an id.
At(events, subject, id) ==
    {i \in 1..Len(events) :
        events[i].subject = subject /\ events[i].recording_id = id}

CallsTo(made, port) == SelectSeq(made, LAMBDA c : c.port = port)

\* The port calls the last call made inside TranscribeAudio, and the command
\* TranscribeAudio was given: the message itself on transcription.run, the
\* command StopRecording built on recording.stop.
TranscribeAudioCalls ==
    IF last.handler = "run" THEN last.calls
    ELSE IF last.handler = "stop" /\ Len(last.calls) > 3
    THEN SubSeq(last.calls, 4, Len(last.calls))
    ELSE <<>>

TranscribeAudioCommand ==
    IF last.handler = "stop" THEN TranscribeOnStopCommand(last.cmd) ELSE last.cmd

TranscribeAudioReturned ==
    last.handler \in Transcribing /\ (last.handler = "stop" => Len(last.calls) > 3)

FetchFailed ==
    \E i \in 1..Len(TranscribeAudioCalls) :
        /\ TranscribeAudioCalls[i].port = "ObjectStore.RetrieveAudio"
        /\ TranscribeAudioCalls[i].ret.err # Nil

PortFailed ==
    \E i \in 1..Len(TranscribeAudioCalls) :
        /\ TranscribeAudioCalls[i].port = "TranscriptionService.TranscribeAudio"
        /\ TranscribeAudioCalls[i].ret.err # Nil

PortSucceeded ==
    \E i \in 1..Len(TranscribeAudioCalls) :
        /\ TranscribeAudioCalls[i].port = "TranscriptionService.TranscribeAudio"
        /\ TranscribeAudioCalls[i].ret.err = Nil

\* StopRecording got as far as publishing recording.finished on the bus.
StopSucceeded ==
    /\ last.handler = "stop"
    /\ \/ last.err = Nil
       \/ Head(last.err) = "failed to transcribe audio after stop"

\* A step in which handler h is handed a message, and the message.
Receives(h) ==
    /\ delivered' = delivered + 1
    /\ frame[h].pc = "idle"
    /\ \/ frame'[h].pc # "idle"
       \/ frame' = frame /\ last'.handler = h

Received(h) == IF frame'[h].pc # "idle" THEN frame'[h].cmd ELSE last'.cmd

\* The id uuid.New() returned in a step in which StartRecording is entered.
StartedID ==
    IF frame'["start"].pc # "idle"
    THEN frame'["start"].recordingID
    ELSE last'.calls[1].arg

(***************************************************************************)
(* C1: no id ever has a second recording.started or a second              *)
(* recording.finished event, whatever commands are repeated; a             *)
(* recording.finished on the bus comes after the recording.started of its  *)
(* id; and once StopRecording has succeeded for an id, both events of that *)
(* id are on the bus.                                                      *)
(***************************************************************************)
C1_OneStartedOneFinished ==
    /\ \A i, j \in 1..Len(publishedEvents) :
        (/\ i < j
         /\ publishedEvents[i].event.subject \in
                {"recording.started", "recording.finished"}
         /\ publishedEvents[j].event.subject = publishedEvents[i].event.subject) =>
            publishedEvents[j].event.recording_id
                # publishedEvents[i].event.recording_id
    /\ \A j \in 1..Len(publishedEvents) :
        (/\ publishedEvents[j].acked
         /\ publishedEvents[j].event.subject = "recording.finished") =>
            \E i \in 1..(j - 1) :
                /\ publishedEvents[i].acked
                /\ publishedEvents[i].event.subject = "recording.started"
                /\ publishedEvents[i].event.recording_id
                       = publishedEvents[j].event.recording_id
    /\ StopSucceeded =>
        /\ At(OnBus, "recording.started", last.cmd.recording_id) # {}
        /\ At(OnBus, "recording.finished", last.cmd.recording_id) # {}

\* A duplicate stop of a recording that already finished has returned.
C1_Witness ==
    /\ last.handler = "stop"
    /\ last.err # Nil
    /\ Sentinel(last.err) = "ErrRecordingNotFound"
    /\ At(OnBus, "recording.finished", last.cmd.recording_id) # {}

(***************************************************************************)
(* C2: the recording.finished event of a recording, and the transcription  *)
(* event of its transcribe_on_stop leg, carry the tags and metadata of its *)
(* recording.started event.                                                *)
(***************************************************************************)
C2_TagsAndMetadataFlow ==
    \A i \in 1..Len(Published) :
        Published[i].subject = "recording.started" =>
            /\ \A j \in At(Published, "recording.finished", Published[i].recording_id) :
                /\ Published[j].tags = Published[i].tags
                /\ Published[j].metadata = Published[i].metadata
            /\ (last.handler = "stop"
                    /\ last.cmd.recording_id = Published[i].recording_id) =>
                \A k \in 1..Len(EventsIn(TranscribeAudioCalls)) :
                    /\ EventsIn(TranscribeAudioCalls)[k].tags = Published[i].tags
                    /\ EventsIn(TranscribeAudioCalls)[k].metadata = Published[i].metadata

(***************************************************************************)
(* C3: a recording.stop or recording.cancel for an id that is not in the   *)
(* registry returns the not-found error after the one recorder call,       *)
(* publishes nothing, stores nothing, and leaves its handler idle.         *)
(***************************************************************************)
C3_UnknownIDNotFound ==
    [][\A h \in {"stop", "cancel"} :
        (Receives(h) /\ Received(h).recording_id \notin DOMAIN recordings) =>
            /\ frame'[h] = IdleFrame
            /\ last'.handler = h
            /\ last'.err # Nil
            /\ Sentinel(last'.err) = "ErrRecordingNotFound"
            /\ Len(last'.calls) = 1
            /\ last'.calls[1].port \in {"AudioRecorder.StopRecording",
                                        "AudioRecorder.CancelRecording"}
            /\ publishedEvents' = publishedEvents
            /\ objects' = objects
            /\ recordings' = recordings]_vars

\* A cancel of a recording that was already stopped or cancelled has returned.
C3_Witness ==
    /\ last.handler = "cancel"
    /\ last.err # Nil
    /\ Sentinel(last.err) = "ErrRecordingNotFound"
    /\ last.cmd.recording_id \in KnownIDs

(***************************************************************************)
(* C4: StartRecording with an id that is active returns the already-exists *)
(* error, leaves the registry as it was and publishes nothing; no id ever  *)
(* has more than one recording.started event.                              *)
(***************************************************************************)
C4_ActiveIDAlreadyExists ==
    [][/\ (Receives("start") /\ StartedID \in DOMAIN recordings) =>
            /\ frame'["start"] = IdleFrame
            /\ last'.handler = "start"
            /\ last'.err # Nil
            /\ Sentinel(last'.err) = "ErrRecordingAlreadyExists"
            /\ recordings' = recordings
            /\ publishedEvents' = publishedEvents
       /\ \A id \in AllIDs :
            Cardinality({i \in 1..Len(publishedEvents') :
                /\ publishedEvents'[i].event.subject = "recording.started"
                /\ publishedEvents'[i].event.recording_id = id}) <= 1]_vars

\* A start whose id collided with an active recording has returned, and the
\* recording is still active.
C4_Witness ==
    /\ last.handler = "start"
    /\ last.err # Nil
    /\ Sentinel(last.err) = "ErrRecordingAlreadyExists"
    /\ last.calls[1].arg \in DOMAIN recordings
    /\ At(OnBus, "recording.started", last.calls[1].arg) # {}

(***************************************************************************)
(* C5: a transcription.run command with both recording_id and audio_data,  *)
(* or with neither, returns an error without any port call and without     *)
(* publishing an event.                                                    *)
(***************************************************************************)
C5_BothOrNeitherRejected ==
    (/\ last.handler = "run"
     /\ (last.cmd.recording_id # EmptyID) = (last.cmd.audio_data # "")) =>
        /\ last.err # Nil
        /\ last.calls = <<>>

(***************************************************************************)
(* C6: a transcription.run command with audio_data and no recording_id     *)
(* makes no object-store call and publishes exactly one event, a           *)
(* transcription.succeeded or a transcription.failed.                      *)
(***************************************************************************)
C6_InlineAudioTranscribed ==
    (/\ last.handler = "run"
     /\ last.cmd.recording_id = EmptyID
     /\ last.cmd.audio_data # "") =>
        /\ CallsTo(last.calls, "ObjectStore.RetrieveAudio") = <<>>
        /\ Len(EventsIn(last.calls)) = 1
        /\ EventsIn(last.calls)[1].subject \in
               {"transcription.succeeded", "transcription.failed"}

(***************************************************************************)
(* C7: when RetrieveAudio fails, TranscribeAudio has called it once, has   *)
(* not called the transcription port, has published exactly one event, a   *)
(* transcription.failed with the command's recording_id, tags and          *)
(* metadata, and returns an error.                                         *)
(***************************************************************************)
C7_FetchFailurePublishesFailed ==
    (TranscribeAudioReturned /\ FetchFailed) =>
        /\ Len(CallsTo(TranscribeAudioCalls, "ObjectStore.RetrieveAudio")) = 1
        /\ CallsTo(TranscribeAudioCalls, "TranscriptionService.TranscribeAudio") = <<>>
        /\ Len(EventsIn(TranscribeAudioCalls)) = 1
        /\ EventsIn(TranscribeAudioCalls)[1].subject = "transcription.failed"
        /\ EventsIn(TranscribeAudioCalls)[1].recording_id
               = TranscribeAudioCommand.recording_id
        /\ EventsIn(TranscribeAudioCalls)[1].tags = TranscribeAudioCommand.tags
        /\ EventsIn(TranscribeAudioCalls)[1].metadata = TranscribeAudioCommand.metadata
        /\ last.err # Nil

\* A transcription.run for a tagged command whose audio could not be fetched
\* has returned.
C7_Witness ==
    /\ last.handler = "run"
    /\ FetchFailed
    /\ last.cmd.tags # {}
    /\ last.err # Nil

(***************************************************************************)
(* C8: no transcription.succeeded event has an empty transcribed_text; a   *)
(* successful transcription call with empty text is published as           *)
(* transcription.failed.                                                   *)
(***************************************************************************)
C8_NoEmptySucceeded ==
    /\ \A i \in 1..Len(Published) :
        Published[i].subject = "transcription.succeeded" =>
            Published[i].body # <<>>
    /\ (/\ TranscribeAudioReturned
        /\ PortSucceeded
        /\ CallsTo(TranscribeAudioCalls,
                   "TranscriptionService.TranscribeAudio")[1].ret.text = <<>>) =>
            \E k \in 1..Len(EventsIn(TranscribeAudioCalls)) :
                EventsIn(TranscribeAudioCalls)[k].subject = "transcription.failed"

(***************************************************************************)
(* C9: when RetrieveAudio and the transcription port both succeed,         *)
(* TranscribeAudio publishes exactly one event, a transcription.succeeded  *)
(* with the command's recording_id, tags and metadata and the port's text, *)
(* and no transcription.failed.                                            *)
(***************************************************************************)
C9_SuccessPublishesSucceeded ==
    (TranscribeAudioReturned /\ ~FetchFailed /\ PortSucceeded) =>
        /\ Len(EventsIn(TranscribeAudioCalls)) = 1
        /\ EventsIn(TranscribeAudioCalls)[1].subject = "transcription.succeeded"
        /\ EventsIn(TranscribeAudioCalls)[1].recording_id
               = TranscribeAudioCommand.recording_id
        /\ EventsIn(TranscribeAudioCalls)[1].tags = TranscribeAudioCommand.tags
        /\ EventsIn(TranscribeAudioCalls)[1].metadata = TranscribeAudioCommand.metadata
        /\ EventsIn(TranscribeAudioCalls)[1].body
               = CallsTo(TranscribeAudioCalls,
                         "TranscriptionService.TranscribeAudio")[1].ret.text

\* A transcription.run for a tagged command has returned after the port gave
\* a non-empty text.
C9_Witness ==
    /\ last.handler = "run"
    /\ PortSucceeded
    /\ last.cmd.tags # {}
    /\ last.err = Nil
    /\ EventsIn(last.calls)[1].body # <<>>

(***************************************************************************)
(* C10: when the transcription port returns an error, TranscribeAudio has  *)
(* called it once, has published exactly one event, a transcription.failed *)
(* with the command's recording_id, tags and metadata and the error's      *)
(* text, and returns an error.                                             *)
(***************************************************************************)
C10_PortFailurePublishesFailed ==
    (TranscribeAudioReturned /\ PortFailed) =>
        /\ Len(CallsTo(TranscribeAudioCalls, "TranscriptionService.TranscribeAudio")) = 1
        /\ Len(EventsIn(TranscribeAudioCalls)) = 1
        /\ EventsIn(TranscribeAudioCalls)[1].subject = "transcription.failed"
        /\ EventsIn(TranscribeAudioCalls)[1].recording_id
               = TranscribeAudioCommand.recording_id
        /\ EventsIn(TranscribeAudioCalls)[1].tags = TranscribeAudioCommand.tags
        /\ EventsIn(TranscribeAudioCalls)[1].metadata = TranscribeAudioCommand.metadata
        /\ EventsIn(TranscribeAudioCalls)[1].body
               = CallsTo(TranscribeAudioCalls,
                         "TranscriptionService.TranscribeAudio")[1].ret.err
        /\ last.err # Nil

\* The transcribe_on_stop leg of a recording.stop has returned after the port
\* failed.
C10_Witness ==
    /\ last.handler = "stop"
    /\ PortFailed
    /\ last.cmd.metadata # "{}"

(***************************************************************************)
(* C11: within one StopRecording call the recording.finished event is      *)
(* published after StoreAudio succeeded and before anything of the         *)
(* transcription leg (RetrieveAudio, the transcription port, a             *)
(* transcription event); once StoreAudio succeeded the call publishes      *)
(* recording.finished whatever transcribe_on_stop says; and without        *)
(* transcribe_on_stop the call has no transcription leg at all.            *)
(***************************************************************************)
IsEvent(call, subjects) ==
    IF call.port = "EventPublisher.PublishEvent"
    THEN call.arg.subject \in subjects
    ELSE FALSE

TranscriptionLeg(call) ==
    \/ call.port \in {"ObjectStore.RetrieveAudio",
                      "TranscriptionService.TranscribeAudio"}
    \/ IsEvent(call, {"transcription.succeeded", "transcription.failed"})

\* The order of the port calls of a StopRecording call.
StopOrder(made) ==
    \A k \in 1..Len(made) :
        /\ IsEvent(made[k], {"recording.finished"}) =>
            \E i \in 1..(k - 1) :
                /\ made[i].port = "ObjectStore.StoreAudio"
                /\ made[i].ret.err = Nil
        /\ TranscriptionLeg(made[k]) =>
            \E j \in 1..(k - 1) :
                /\ IsEvent(made[j], {"recording.finished"})
                /\ made[j].ret.err = Nil

C11_FinishedBeforeTranscription ==
    /\ StopOrder(frame["stop"].calls)
    /\ (frame["stop"].pc # "idle" /\ ~frame["stop"].cmd.transcribe_on_stop) =>
        \A k \in 1..Len(frame["stop"].calls) :
            ~TranscriptionLeg(frame["stop"].calls[k])
    /\ last.handler = "stop" =>
        /\ StopOrder(last.calls)
        /\ (Len(last.calls) >= 2 /\ last.calls[2].ret.err = Nil) =>
            /\ Len(last.calls) >= 3
            /\ IsEvent(last.calls[3], {"recording.finished"})
        /\ ~last.cmd.transcribe_on_stop =>
            \A k \in 1..Len(last.calls) : ~TranscriptionLeg(last.calls[k])

\* A stop with transcribe_on_stop has returned after its transcription leg
\* published transcription.succeeded.
C11_Witness ==
    /\ last.handler = "stop"
    /\ last.cmd.transcribe_on_stop
    /\ last.err = Nil
    /\ IsEvent(last.calls[Len(last.calls)], {"transcription.succeeded"})

(***************************************************************************)
(* C12: when the transcription leg of a StopRecording call fails, the call *)
(* returns an error, its recording.finished event is on the bus and its    *)
(* audio is in the object store, and after recording.finished the call     *)
(* made no call outside the transcription leg; no step ever takes an       *)
(* object out of the store or an event out of the log.                     *)
(***************************************************************************)
LegFailed(l) ==
    /\ l.handler = "stop"
    /\ \E k \in 4..Len(l.calls) : l.calls[k].ret.err # Nil

C12_FailedLegUndoesNothing ==
    [][/\ objects \subseteq objects'
       /\ Len(publishedEvents) <= Len(publishedEvents')
       /\ SubSeq(publishedEvents', 1, Len(publishedEvents)) = publishedEvents
       /\ LegFailed(last') =>
            /\ last'.err # Nil
            /\ Head(last'.err) = "failed to transcribe audio after stop"
            /\ last'.cmd.recording_id \in objects'
            /\ \E i \in 1..Len(publishedEvents') :
                /\ publishedEvents'[i].acked
                /\ publishedEvents'[i].event.subject = "recording.finished"
                /\ publishedEvents'[i].event = last'.calls[3].arg
            /\ \A k \in 4..Len(last'.calls) : TranscriptionLeg(last'.calls[k])]_vars

\* A stop has returned after RetrieveAudio failed in its transcription leg.
C12_Witness ==
    /\ LegFailed(last)
    /\ last.calls[4].ret.err # Nil
    /\ last.cmd.recording_id \in objects

(***************************************************************************)
(* C29: the audio of every recording whose recording.finished event is on  *)
(* the bus is in the object store, and TranscribeAudio given such an id    *)
(* gets the audio from RetrieveAudio and goes on to transcribe it, unless  *)
(* the object store itself fails during the call.                          *)
(***************************************************************************)
FinishedOnBus(log) ==
    {log[i].event.recording_id :
        i \in {j \in 1..Len(log) :
                  /\ log[j].acked
                  /\ log[j].event.subject = "recording.finished"}}

C29_FinishedIsRecoverable ==
    [][/\ FinishedOnBus(publishedEvents') \subseteq objects'
       /\ \A h \in Transcribing :
            (/\ frame[h].pc = "retrieve"
             /\ frame'[h].pc # "retrieve"
             /\ frame[h].tcmd.recording_id \in FinishedOnBus(publishedEvents)
             /\ faults' = faults) =>
                /\ frame'[h].pc = "transcribe"
                /\ frame'[h].calls[Len(frame'[h].calls)].ret.err = Nil]_vars

\* A transcription.run has succeeded for a recording whose stop published
\* recording.finished and then failed in its transcription leg.
C29_Witness ==
    /\ last.handler = "run"
    /\ last.err = Nil
    /\ last.cmd.recording_id \in FinishedOnBus(publishedEvents)
    /\ At(OnBus, "transcription.failed", last.cmd.recording_id) # {}
    /\ At(OnBus, "transcription.succeeded", last.cmd.recording_id) # {}

C34_EmbedderWitness ==
    /\ outcome.op = "HandleTranscriptionEvent"
    /\ outcome.err # Nil
    /\ Head(outcome.err) = "failed to unmarshal transcription event"

(***************************************************************************)
(* C36: however stop and cancel commands for one id are repeated and       *)
(* interleaved, no id has both a recording.finished and a                  *)
(* recording.cancelled event, nor two of either, counting every            *)
(* PublishEvent call made.                                                 *)
(***************************************************************************)
OneTerminalEvent ==
    \A i, j \in 1..Len(publishedEvents) :
        (/\ i < j
         /\ publishedEvents[i].event.subject \in
                {"recording.finished", "recording.cancelled"}
         /\ publishedEvents[j].event.subject \in
                {"recording.finished", "recording.cancelled"}) =>
            publishedEvents[j].event.recording_id
                # publishedEvents[i].event.recording_id

\* C36: in every reachable state no two finished or cancelled events carry
\* the same id.
C36_FinishedOrCancelled == []OneTerminalEvent

\* A cancel was refused while the stop of the same recording was about to
\* publish recording.finished.
C36_Witness ==
    /\ frame["stop"].pc = "publish_finished"
    /\ last.handler = "cancel"
    /\ last.cmd.recording_id = frame["stop"].cmd.recording_id
    /\ last.err # Nil

\* A stop was refused while the cancel of the same recording was about to
\* publish recording.cancelled.
C36_WitnessCancelFirst ==
    /\ frame["cancel"].pc = "publish_cancelled"
    /\ last.handler = "stop"
    /\ last.cmd.recording_id = frame["cancel"].cmd.recording_id
    /\ last.err # Nil

(***************************************************************************)
(* C37: when StopRecording returns because the recorded file was missing   *)
(* or the object store refused the audio, the session of its id is out of  *)
(* the registry and no recording.finished for the id was published; an id  *)
(* that was issued and is out of the registry stays out; and a stop or a   *)
(* cancel for an id that is out of the registry returns                    *)
(* ErrRecordingNotFound.                                                   *)
(***************************************************************************)
StopFailedAfterLookup ==
    /\ last.handler = "stop"
    /\ last.err # Nil
    /\ \/ Sentinel(last.err) = "ErrRecordingFileNotFound"
       \/ /\ Len(last.err) > 1
          /\ last.err[1] = "failed to store audio file"

StopConsumedSession ==
    StopFailedAfterLookup =>
        /\ last.cmd.recording_id \notin DOMAIN recordings
        /\ At(Published, "recording.finished", last.cmd.recording_id) = {}
        /\ EventsIn(last.calls) = <<>>

GoneStaysGone ==
    \A id \in issued :
        id \notin DOMAIN recordings => id \notin DOMAIN recordings'

LaterNotFound ==
    \A h \in {"stop", "cancel"} :
        (Receives(h) /\ Received(h).recording_id \notin DOMAIN recordings) =>
            /\ last'.handler = h
            /\ Len(last'.calls) = 1
            /\ last'.calls[1].ret.err = ErrRecordingNotFound
            /\ Sentinel(last'.err) = "ErrRecordingNotFound"

\* C37: a failed stop has consumed its session, and the id is not found
\* from then on.
C37_FailedStopConsumesSession ==
    /\ []StopConsumedSession
    /\ [][GoneStaysGone /\ LaterNotFound]_vars

\* The session is gone.
Consumed(id) ==
    /\ id \in KnownIDs
    /\ id \notin DOMAIN recordings
    /\ At(Published, "recording.finished", id) = {}
    /\ At(Published, "recording.cancelled", id) = {}
    /\ frame["stop"].pc = "idle"
    /\ frame["cancel"].pc = "idle"

\* A cancel was refused for a recording whose stop had failed.
C37_Witness ==
    /\ last.handler = "cancel"
    /\ last.err # Nil
    /\ Sentinel(last.err) = "ErrRecordingNotFound"
    /\ Consumed(last.cmd.recording_id)

\* A stop has returned after the object store refused the audio.
C37_WitnessStoreFailed ==
    /\ StopFailedAfterLookup
    /\ Len(last.calls) = 2
    /\ last.calls[2].port = "ObjectStore.StoreAudio"

\* A stop has returned after the recorded file was not found.
C37_WitnessFileMissing ==
    /\ StopFailedAfterLookup
    /\ Sentinel(last.err) = "ErrRecordingFileNotFound"

(***************************************************************************)
(* C38: when StartRecording returns because recording.started could not be *)
(* published, the recorder had started the session, the call made no        *)
(* further recorder call, the session of the generated id is in the        *)
(* registry, and no recording.started for that id is on the bus.           *)
(***************************************************************************)
StartedPublishFailed ==
    /\ last.handler = "start"
    /\ Len(last.calls) = 2
    /\ last.calls[2].ret.err # Nil

SessionLeftRegistered ==
    /\ StartedPublishFailed =>
          /\ last.err # Nil
          /\ last.err[1] = "failed to publish recording started event"
          /\ last.calls[1].port = "AudioRecorder.StartRecording"
          /\ last.calls[1].ret.err = Nil
          /\ last.calls[1].arg \in DOMAIN recordings
          /\ At(OnBus, "recording.started", last.calls[1].arg) = {}
    /\ (last.handler = "start" /\ last.err # Nil
            /\ last.err[1] = "failed to publish recording started event") =>
          StartedPublishFailed

\* C38: in every reachable state a start that returned on the failed
\* publish has left its session in the registry.
C38_NoRollbackOfStart == []SessionLeftRegistered

\* A start has returned after NATS refused recording.started.
C38_Witness ==
    /\ StartedPublishFailed
    /\ last.calls[1].arg \in DOMAIN recordings
    /\ Bus = <<>>

(***************************************************************************)
(* C13, as stated: when the recorder's StartRecording fails, the service's *)
(* StartRecording returns an error, publishes nothing, and the registry    *)
(* holds no session for the generated id.                                  *)
(***************************************************************************)
RecorderStartFailed ==
    /\ last.handler = "start"
    /\ last.calls[1].ret.err # Nil

C14_CancelRemovesAndPublishesOnce ==
    /\ frame["cancel"].pc = "publish_cancelled" =>
        frame["cancel"].cmd.recording_id \notin DOMAIN recordings
    /\ (last.handler = "cancel" /\ last.calls[1].ret.err = Nil) =>
        /\ last.cmd.recording_id \notin DOMAIN recordings
        /\ Len(last.calls) = 2
        /\ IsEvent(last.calls[2], {"recording.cancelled"})
        /\ last.calls[2].arg.recording_id = last.cmd.recording_id
    /\ \A i \in 1..Len(publishedEvents) :
        publishedEvents[i].event.subject = "recording.cancelled" =>
            /\ publishedEvents[i].event.recording_id \notin objects
            /\ publishedEvents[i].event.recording_id \notin DOMAIN recordings
            /\ \A j \in 1..Len(publishedEvents) :
                (/\ j # i
                 /\ publishedEvents[j].event.subject = "recording.cancelled") =>
                    publishedEvents[j].event.recording_id
                        # publishedEvents[i].event.recording_id

\* A cancel of an active recording has returned with its event on the bus.
C14_Witness ==
    /\ last.handler = "cancel"
    /\ last.err = Nil
    /\ At(OnBus, "recording.cancelled", last.cmd.recording_id) # {}

(***************************************************************************)
(* C15.  Under any interleaving of concurrent start, stop and cancel calls *)
(* the registry is updated atomically: no call that holds the lock works   *)
(* from a stale lookup, and for every id the starts that succeeded         *)
(* outnumber the stop and cancel calls that found the session by exactly   *)
(* one while the id is active and by none while it is not.  So of several  *)
(* starts for one id at most one succeeds, and of several stop or cancel   *)
(* calls for one active id exactly one finds the session.                  *)
(***************************************************************************)
StartsSucceeded(id) ==
    {c \in Callers : /\ callers[c].pc = "done"
                     /\ callers[c].op = "StartRecording"
                     /\ callers[c].recordingID = id
                     /\ callers[c].err = Nil}

SessionsFound(id) ==
    {c \in Callers : /\ callers[c].pc = "done"
                     /\ callers[c].op \in {"StopRecording", "CancelRecording"}
                     /\ callers[c].recordingID = id
                     /\ callers[c].err # ErrRecordingNotFound}

SessionsNotFound(id) ==
    {c \in Callers : /\ callers[c].pc = "done"
                     /\ callers[c].op \in {"StopRecording", "CancelRecording"}
                     /\ callers[c].recordingID = id
                     /\ callers[c].err = ErrRecordingNotFound}

C15_RegistryAtomic ==
    /\ \A c \in Callers :
          callers[c].pc = "locked" =>
              /\ mu = c
              /\ callers[c].exists
                     = (callers[c].recordingID \in DOMAIN recordings)
    /\ \A id \in UUIDs :
          Cardinality(StartsSucceeded(id)) - Cardinality(SessionsFound(id))
              = IF id \in DOMAIN recordings THEN 1 ELSE 0

\* One id was started, then stopped or cancelled by two callers: one of
\* them found the session, the other got not-found.
C15_Witness ==
    \E id \in UUIDs :
        /\ Cardinality(StartsSucceeded(id)) = 1
        /\ Cardinality(SessionsFound(id)) = 1
        /\ Cardinality(SessionsNotFound(id)) = 1
        /\ id \notin DOMAIN recordings

(***************************************************************************)
(* C30.  When the ceiling of a session passes with no stop or cancel, the  *)
(* capture ends and the registry no longer holds the session.              *)
(***************************************************************************)
C30_CeilingEndsSession ==
    [][\A id \in UUIDs :
          (/\ id \in capturing
           /\ id \notin capturing'
           /\ callers' = callers) =>
              id \notin DOMAIN recordings']_vars

(***************************************************************************)
(* C31.  Cancelling main's context ends every capture in flight.           *)
(***************************************************************************)
C31_ShutdownEndsCaptures ==
    [][(~rootCancelled /\ rootCancelled') => capturing' = {}]_vars

(***************************************************************************)
(* The embedding service.  Errors of its three packages are distinct       *)
(* values even where their names agree.                                    *)
(***************************************************************************)
CoreErrEmptyText          == <<"core.ErrEmptyText">>
CoreErrMissingRecordingID == <<"core.ErrMissingRecordingID">>
CoreErrRecordNotFound     == <<"core.ErrRecordNotFound">>

StoreErrDatabaseUnavailable == <<"pgvector_adapter.ErrDatabaseUnavailable">>
StoreErrMissingRecordingID  == <<"pgvector_adapter.ErrMissingRecordingID">>
StoreErrEmptyText           == <<"pgvector_adapter.ErrEmptyText">>
StoreErrEmptyEmbedding      == <<"pgvector_adapter.ErrEmptyEmbedding">>
StoreErrInvalidData         == <<"pgvector_adapter.ErrInvalidData">>

EmbedderErrAPIKeyInvalid      == <<"openai_adapter.ErrAPIKeyInvalid">>
EmbedderErrQuotaExceeded      == <<"openai_adapter.ErrQuotaExceeded">>
EmbedderErrEmptyText          == <<"openai_adapter.ErrEmptyText">>
EmbedderErrRequestTimeout     == <<"openai_adapter.ErrRequestTimeout">>
EmbedderErrServiceUnavailable == <<"openai_adapter.ErrServiceUnavailable">>
EmbedderErrEmptyEmbedding     == <<"openai_adapter.ErrEmptyEmbedding">>

\* The id of the row the database initialisation script inserts.
SeedID == MaxRecordings + 2

\* An id that is not a UUID, such as "non-existent-id".
NonUUID == MaxRecordings + 3

\* recording_id values a caller may pass: none, ids of recordings, the
\* seed's, one that is no UUID.
RecordIDs == {EmptyID} \cup UUIDs \cup {SeedID, NonUUID}

TagLists == {{}, {"meeting"}}

\* Embeddings: float32 values, written as %g prints them.
Vectors == {<<"0.5">>, <<"2", "0.5">>}

(***************************************************************************)
(* openai_adapter.Embedder.                                                *)
(***************************************************************************)
EmbedderMaxRetries == 3

\* What one HTTP exchange with the embeddings API can give: a status (0: the
\* request itself failed because the context ended) and, with 200, the
\* embedding of data[0], empty when there is none.
EmbeddingResponses ==
    [status : {200}, embedding : Vectors \cup {<<>>}]
        \cup [status : {0, 401, 503}, embedding : {<<>>}]

EmbedderHandleHTTPError(statusCode) ==
    IF statusCode = 401 THEN EmbedderErrAPIKeyInvalid
    ELSE IF statusCode = 429 THEN EmbedderErrQuotaExceeded
    ELSE IF statusCode \in {500, 502, 503} THEN EmbedderErrServiceUnavailable
    ELSE <<"unexpected status code">>

\* One attempt.  Status -1: the request failed with the context still live.
generateWithRetry(resp) ==
    IF resp.status = 0
    THEN [embedding |-> <<>>, err |-> EmbedderErrRequestTimeout]
    ELSE IF resp.status = -1
    THEN [embedding |-> <<>>,
          err |-> Wrap("failed to make request", <<"net/http">>)]
    ELSE IF resp.status # 200
    THEN [embedding |-> <<>>, err |-> EmbedderHandleHTTPError(resp.status)]
    ELSE IF resp.embedding = <<>>
    THEN [embedding |-> <<>>, err |-> EmbedderErrEmptyEmbedding]
    ELSE [embedding |-> resp.embedding, err |-> Nil]

EmbedderIsNonRetryableError(err) ==
    err \in {EmbedderErrAPIKeyInvalid, <<"openai_adapter.ErrAPIKeyNotSet">>,
             <<"openai_adapter.ErrTextTooLong">>, EmbedderErrEmptyText}

\* The attempt loop from attempt number `attempt` on: every result it can
\* end with over all the responses the API may give.
RECURSIVE GenerateLoop(_, _)
GenerateLoop(attempt, lastErr) ==
    IF attempt > EmbedderMaxRetries
    THEN {[embedding |-> <<>>,
           err |-> Wrap("embedding generation failed after attempts", lastErr)]}
    ELSE UNION {
        LET r == generateWithRetry(resp) IN
        IF r.err = Nil
        THEN {[embedding |-> r.embedding, err |-> Nil]}
        ELSE IF EmbedderIsNonRetryableError(r.err)
        THEN {[embedding |-> <<>>,
               err |-> Wrap("embedding generation failed after attempts", r.err)]}
        ELSE GenerateLoop(attempt + 1, r.err)
        : resp \in EmbeddingResponses }

\* Every result of the attempts for a non-empty text.
GenerateAttempts == GenerateLoop(1, Nil)

\* Every result Embedder.GenerateEmbedding can return for the text.
EmbedderGenerateEmbedding(text) ==
    IF text = <<>>
    THEN {[embedding |-> <<>>, err |-> EmbedderErrEmptyText]}
    ELSE GenerateAttempts

(***************************************************************************)
(* pgvector_adapter.Store and the database behind it.                      *)
(***************************************************************************)
RECURSIVE JoinComma(_)
JoinComma(parts) ==
    IF Len(parts) = 1 THEN parts
    ELSE <<Head(parts), ",">> \o JoinComma(Tail(parts))

\* "[" + strings.Join(parts, ",") + "]", as a sequence of tokens
vectorToString(vector) ==
    IF vector = <<>> THEN <<"[", "]">>
    ELSE <<"[">> \o JoinComma(vector) \o <<"]">>

RECURSIVE TrimBrackets(_)
TrimBrackets(s) ==
    IF s # <<>> /\ Head(s) \in {"[", "]"} THEN TrimBrackets(Tail(s))
    ELSE IF s # <<>> /\ s[Len(s)] \in {"[", "]"}
    THEN TrimBrackets(SubSeq(s, 1, Len(s) - 1))
    ELSE s

RECURSIVE SplitComma(_)
SplitComma(s) ==
    IF s = <<>> THEN <<>>
    ELSE IF Head(s) = "," THEN SplitComma(Tail(s))
    ELSE <<Head(s)>> \o SplitComma(Tail(s))

\* strings.Trim(s, "[]"), strings.Split(s, ","), one float per part
stringToVector(s) == SplitComma(TrimBrackets(s))

\* The statement of StoreRecord, clause by clause.
StoreRecordQuery ==
    <<"INSERT INTO transcriptions", "VALUES", "ON CONFLICT (recording_id)",
      "UPDATE SET">>

\* The INSERT of the initialisation script.
SeedQuery ==
    <<"INSERT INTO transcriptions", "VALUES", "ON CONFLICT (recording_id)",
      "DO NOTHING">>

SeedRow ==
    [recording_id |-> SeedID, transcribed_text |-> <<"a">>,
     tags |-> {"test", "setup"}, embedding |-> vectorToString(<<"0.5">>)]

\* PostgreSQL's grammar of INSERT: a conflict target is followed by
\* DO NOTHING or DO UPDATE SET.
PostgresParses(query) ==
    /\ Len(query) \in {2, 4}
    /\ query[1] = "INSERT INTO transcriptions"
    /\ query[2] = "VALUES"
    /\ Len(query) = 4 =>
          /\ query[3] = "ON CONFLICT (recording_id)"
          /\ query[4] \in {"DO NOTHING", "DO UPDATE SET"}

ConnectionRefused == <<"dial tcp: connect: connection refused">>
SyntaxError       == <<"pq: syntax error at or near UPDATE">>
DuplicateKey      == <<"pq: duplicate key value violates unique constraint">>
InvalidUUID       == <<"pq: invalid input syntax for type uuid">>

\* strings.Contains(err.Error(), word)
Mentions(err, word) ==
    <<err, word>> \in {<<ConnectionRefused, "connection">>,
                       <<DuplicateKey, "constraint">>}

\* db.ExecContext of an INSERT with the row's values: recording_id is the
\* table's primary key.
PostgresExec(table, query, row, connected) ==
    IF ~connected THEN [rows |-> table, err |-> ConnectionRefused]
    ELSE IF ~PostgresParses(query) THEN [rows |-> table, err |-> SyntaxError]
    ELSE IF row.recording_id = NonUUID THEN [rows |-> table, err |-> InvalidUUID]
    ELSE IF row.recording_id \notin DOMAIN table
    THEN [rows |-> [i \in (DOMAIN table) \cup {row.recording_id} |->
                       IF i = row.recording_id THEN row ELSE table[i]],
          err |-> Nil]
    ELSE IF Len(query) = 2 THEN [rows |-> table, err |-> DuplicateKey]
    ELSE IF query[4] = "DO NOTHING" THEN [rows |-> table, err |-> Nil]
    ELSE [rows |-> [table EXCEPT ![row.recording_id] = row], err |-> Nil]

StoreStoreRecord(table, record, connected) ==
    IF record.recording_id = EmptyID
    THEN [rows |-> table, err |-> StoreErrMissingRecordingID]
    ELSE IF record.transcribed_text = <<>>
    THEN [rows |-> table, err |-> StoreErrEmptyText]
    ELSE IF record.embedding = <<>>
    THEN [rows |-> table, err |-> StoreErrEmptyEmbedding]
    ELSE LET r == PostgresExec(table, StoreRecordQuery,
                     [record EXCEPT !.embedding = vectorToString(@)], connected)
         IN  IF r.err = Nil THEN r
             ELSE IF Mentions(r.err, "connection")
             THEN [rows |-> table, err |-> StoreErrDatabaseUnavailable]
             ELSE IF Mentions(r.err, "constraint")
             THEN [rows |-> table, err |-> StoreErrInvalidData]
             ELSE [rows |-> table,
                   err |-> Wrap("failed to store vector record", r.err)]

ErrNoRows == <<"sql: no rows in result set">>

\* db.QueryRowContext(...).Scan of the SELECT by recording_id, a column of
\* type UUID.
PostgresQueryRow(table, recordingID, connected) ==
    IF ~connected THEN [row |-> NoRecord, err |-> ConnectionRefused]
    ELSE IF recordingID = NonUUID THEN [row |-> NoRecord, err |-> InvalidUUID]
    ELSE IF recordingID \notin DOMAIN table
    THEN [row |-> NoRecord, err |-> ErrNoRows]
    ELSE [row |-> table[recordingID], err |-> Nil]

\* found = FALSE with err = Nil is the (nil, nil) of sql.ErrNoRows.
StoreGetRecord(table, recordingID, connected) ==
    IF recordingID = EmptyID
    THEN [record |-> NoRecord, found |-> FALSE, err |-> StoreErrMissingRecordingID]
    ELSE LET q == PostgresQueryRow(table, recordingID, connected) IN
         IF q.err = ErrNoRows
         THEN [record |-> NoRecord, found |-> FALSE, err |-> Nil]
         ELSE IF q.err # Nil /\ Mentions(q.err, "connection")
         THEN [record |-> NoRecord, found |-> FALSE,
               err |-> StoreErrDatabaseUnavailable]
         ELSE IF q.err # Nil
         THEN [record |-> NoRecord, found |-> FALSE,
               err |-> Wrap("failed to retrieve vector record", q.err)]
         ELSE [record |-> [q.row EXCEPT !.embedding = stringToVector(@)],
               found |-> TRUE, err |-> Nil]

(***************************************************************************)
(* core.Service of the embedder.  gen is the result the embedding          *)
(* generator gives when called, connected whether the database answers.    *)
(***************************************************************************)
PortCall(port, arg, ret) == [port |-> port, arg |-> arg, ret |-> ret]

\* Faulty variants of ProcessTranscription: one without the check of the
\* text, one that stores whatever the generator returned.
ServiceProcessTranscriptionUnchecked(table, recordingID, transcribedText, tags, gen, connected) ==
    LET generated == PortCall("GenerateEmbedding", transcribedText, gen)
        record    == [recording_id |-> recordingID,
                      transcribed_text |-> transcribedText,
                      tags |-> tags, embedding |-> gen.embedding]
        s         == StoreStoreRecord(table, record, connected)
        stored    == PortCall("StoreRecord", record, [err |-> s.err])
    IN  IF gen.err # Nil
        THEN [rows |-> table, calls |-> <<generated>>,
              err |-> Wrap("failed to generate embedding", gen.err)]
        ELSE IF s.err # Nil
        THEN [rows |-> s.rows, calls |-> <<generated, stored>>,
              err |-> Wrap("failed to store vector record", s.err)]
        ELSE [rows |-> s.rows, calls |-> <<generated, stored>>, err |-> Nil]

ServiceProcessTranscriptionStoresAnyway(table, recordingID, transcribedText, tags, gen, connected) ==
    LET generated == PortCall("GenerateEmbedding", transcribedText, gen)
        record    == [recording_id |-> recordingID,
                      transcribed_text |-> transcribedText,
                      tags |-> tags, embedding |-> gen.embedding]
        s         == StoreStoreRecord(table, record, connected)
        stored    == PortCall("StoreRecord", record, [err |-> s.err])
    IN  IF transcribedText = <<>>
        THEN [rows |-> table, calls |-> <<>>, err |-> CoreErrEmptyText]
        ELSE IF s.err # Nil
        THEN [rows |-> s.rows, calls |-> <<generated, stored>>,
              err |-> Wrap("failed to store vector record", s.err)]
        ELSE [rows |-> s.rows, calls |-> <<generated, stored>>, err |-> Nil]

ServiceProcessTranscription(table, recordingID, transcribedText, tags, gen, connected) ==
    LET generated == PortCall("GenerateEmbedding", transcribedText, gen)
        record    == [recording_id |-> recordingID,
                      transcribed_text |-> transcribedText,
                      tags |-> tags, embedding |-> gen.embedding]
        s         == StoreStoreRecord(table, record, connected)
        stored    == PortCall("StoreRecord", record, [err |-> s.err])
    IN  IF transcribedText = <<>>
        THEN [rows |-> table, calls |-> <<>>, err |-> CoreErrEmptyText]
        ELSE IF gen.err # Nil
        THEN [rows |-> table, calls |-> <<generated>>,
              err |-> Wrap("failed to generate embedding", gen.err)]
        ELSE IF s.err # Nil
        THEN [rows |-> s.rows, calls |-> <<generated, stored>>,
              err |-> Wrap("failed to store vector record", s.err)]
        ELSE [rows |-> s.rows, calls |-> <<generated, stored>>, err |-> Nil]

\* The payloads of transcription.succeeded messages: JSON objects, a missing
\* field reading as the zero value, and one payload that is not JSON.
EventDatas ==
    [json : {TRUE}, recording_id : RecordIDs, transcribed_text : Texts,
     tags : TagLists]
        \cup {[json |-> FALSE, recording_id |-> EmptyID,
                transcribed_text |-> <<>>, tags |-> {}]}

ServiceHandleTranscriptionEvent(table, data, gen, connected) ==
    IF ~data.json
    THEN [rows |-> table, calls |-> <<>>,
          err |-> Wrap("failed to unmarshal transcription event", <<"json">>)]
    ELSE IF data.recording_id = EmptyID
    THEN [rows |-> table, calls |-> <<>>, err |-> CoreErrMissingRecordingID]
    ELSE IF data.transcribed_text = <<>>
    THEN [rows |-> table, calls |-> <<>>, err |-> CoreErrEmptyText]
    ELSE ServiceProcessTranscription(table, data.recording_id,
             data.transcribed_text, data.tags, gen, connected)

ServiceGetRecord(table, recordingID, connected) ==
    LET g == StoreGetRecord(table, recordingID, connected)
        c == <<PortCall("GetRecord", recordingID, g)>>
    IN  IF g.err # Nil
        THEN [record |-> NoRecord, calls |-> c,
              err |-> Wrap("failed to retrieve vector record", g.err)]
        ELSE IF ~g.found
        THEN [record |-> NoRecord, calls |-> c, err |-> CoreErrRecordNotFound]
        ELSE [record |-> g.record, calls |-> c, err |-> Nil]

\* The initialisation script of the database runs.
InitScript ==
    /\ rows' = PostgresExec(rows, SeedQuery, SeedRow, TRUE).rows
    /\ outcome' = NoOperation
    /\ UNCHANGED <<transcriberVars, recorderVars, queryVars, adapterVars,
                   corrVars>>

\* A direct call of Service.ProcessTranscription.
ProcessTranscription ==
    \E recordingID \in RecordIDs, transcribedText \in Texts,
       tags \in TagLists, connected \in BOOLEAN :
      \E gen \in EmbedderGenerateEmbedding(transcribedText) :
        LET r == ServiceProcessTranscription(rows, recordingID,
                     transcribedText, tags, gen, connected)
        IN  /\ rows' = r.rows
            /\ outcome' = [op |-> "ProcessTranscription",
                           recordingID |-> recordingID,
                           transcribedText |-> transcribedText, tags |-> tags,
                           calls |-> r.calls, err |-> r.err,
                           record |-> NoRecord]
            /\ UNCHANGED <<transcriberVars, recorderVars, queryVars, adapterVars,
                   corrVars>>

\* The subscriber hands a transcription.succeeded message to the service.
HandleTranscriptionEvent ==
    \E data \in EventDatas, connected \in BOOLEAN :
      \E gen \in EmbedderGenerateEmbedding(data.transcribed_text) :
        LET r == ServiceHandleTranscriptionEvent(rows, data, gen, connected)
        IN  /\ rows' = r.rows
            /\ outcome' = [op |-> "HandleTranscriptionEvent",
                           recordingID |-> data.recording_id,
                           transcribedText |-> data.transcribed_text,
                           tags |-> data.tags,
                           calls |-> r.calls, err |-> r.err,
                           record |-> NoRecord]
            /\ UNCHANGED <<transcriberVars, recorderVars, queryVars, adapterVars,
                   corrVars>>

GetRecord ==
    \E recordingID \in RecordIDs, connected \in BOOLEAN :
        LET r == ServiceGetRecord(rows, recordingID, connected)
        IN  /\ outcome' = [op |-> "GetRecord", recordingID |-> recordingID,
                           transcribedText |-> <<>>, tags |-> {},
                           calls |-> r.calls, err |-> r.err,
                           record |-> r.record]
            /\ UNCHANGED <<rows, transcriberVars, recorderVars, queryVars, adapterVars,
                   corrVars>>

EmbedNext ==
    \/ InitScript
    \/ ProcessTranscription
    \/ HandleTranscriptionEvent
    \/ GetRecord

EmbedSpec == Init /\ [][EmbedNext]_vars

(***************************************************************************)
(* Vocabulary of the properties of the embedding service.                  *)
(***************************************************************************)
PortCalls(o, port) == {i \in DOMAIN o.calls : o.calls[i].port = port}

\* The step is a call of Service.ProcessTranscription.
ProcessTranscriptionStep == outcome'.op = "ProcessTranscription"

(***************************************************************************)
(* C16.  ProcessTranscription with empty transcribed text fails with       *)
(* ErrEmptyText, calls neither the embedding generator nor the vector      *)
(* store, and leaves the table as it was.                                  *)
(***************************************************************************)
C16_EmptyTextRejected ==
    [][(ProcessTranscriptionStep /\ outcome'.transcribedText = <<>>) =>
          /\ outcome'.err = CoreErrEmptyText
          /\ PortCalls(outcome', "GenerateEmbedding") = {}
          /\ PortCalls(outcome', "StoreRecord") = {}
          /\ rows' = rows]_vars

C16_Witness ==
    /\ outcome.op = "ProcessTranscription"
    /\ outcome.transcribedText = <<>>
    /\ outcome.recordingID \in UUIDs
    /\ outcome.err = CoreErrEmptyText

(***************************************************************************)
(* C17.  An input whose recording_id is empty is rejected before the       *)
(* embedding generator is called and before anything is written, through   *)
(* HandleTranscriptionEvent and through a direct ProcessTranscription      *)
(* alike.                                                                  *)
(***************************************************************************)
C17_EmptyIDRejectedFirst ==
    [][(/\ outcome'.op \in {"ProcessTranscription", "HandleTranscriptionEvent"}
        /\ outcome'.recordingID = EmptyID) =>
          /\ outcome'.err # Nil
          /\ PortCalls(outcome', "GenerateEmbedding") = {}
          /\ PortCalls(outcome', "StoreRecord") = {}
          /\ rows' = rows]_vars

(***************************************************************************)
(* C18.  Every row of the table has a non-empty recording_id, text and     *)
(* embedding.  The vector store is called only after the embedding call    *)
(* for that text succeeded, with the embedding it returned; when the       *)
(* embedding call fails the store is not called and the table is left as   *)
(* it was.                                                                 *)
(***************************************************************************)
RowsComplete(table) ==
    \A i \in DOMAIN table :
        /\ table[i].recording_id = i
        /\ i # EmptyID
        /\ table[i].transcribed_text # <<>>
        /\ stringToVector(table[i].embedding) # <<>>

EmbeddingFailed(o) ==
    \E i \in PortCalls(o, "GenerateEmbedding") : o.calls[i].ret.err # Nil

StoredAfterEmbedding(o) ==
    \A j \in PortCalls(o, "StoreRecord") :
        \E i \in PortCalls(o, "GenerateEmbedding") :
            /\ i < j
            /\ o.calls[i].ret.err = Nil
            /\ o.calls[i].arg = o.calls[j].arg.transcribed_text
            /\ o.calls[i].ret.embedding = o.calls[j].arg.embedding
            /\ o.calls[j].arg.embedding # <<>>

C18_NoPartialRecords ==
    [][/\ RowsComplete(rows')
       /\ StoredAfterEmbedding(outcome')
       /\ EmbeddingFailed(outcome') =>
             /\ PortCalls(outcome', "StoreRecord") = {}
             /\ outcome'.err # Nil
             /\ rows' = rows
       /\ (rows' # rows /\ outcome'.op # "none") =>
             /\ PortCalls(outcome', "StoreRecord") # {}
             /\ ~EmbeddingFailed(outcome')]_vars

\* Processing a message for a recording failed at the embedding call, the
\* table holding a row.
C18_Witness ==
    /\ outcome.op = "HandleTranscriptionEvent"
    /\ outcome.recordingID \in UUIDs
    /\ EmbeddingFailed(outcome)
    /\ DOMAIN rows # {}

\* The operation had a non-empty id and text, its embedding call succeeded
\* and the database answered its statement.
Storable(o) ==
    /\ o.op \in {"ProcessTranscription", "HandleTranscriptionEvent"}
    /\ o.recordingID # EmptyID
    /\ o.transcribedText # <<>>
    /\ PortCalls(o, "GenerateEmbedding") # {}
    /\ ~EmbeddingFailed(o)
    /\ \A j \in PortCalls(o, "StoreRecord") :
          o.calls[j].ret.err # StoreErrDatabaseUnavailable

\* The record the operation submitted to the store.
Submitted(o) ==
    [recording_id |-> o.recordingID, transcribed_text |-> o.transcribedText,
     tags |-> o.tags, embedding |-> o.calls[1].ret.embedding]

(***************************************************************************)
(* C19.  For a non-empty id and text, ProcessTranscription(id, text, tags) *)
(* with the embedding generated and the database reachable, followed by    *)
(* GetRecord(id), returns the record submitted: that id, text and tags     *)
(* and the embedding the generator returned.                               *)
(***************************************************************************)
C19_StoredThenRetrieved ==
    [][(/\ outcome.op = "ProcessTranscription"
        /\ Storable(outcome)
        /\ outcome'.op = "GetRecord"
        /\ outcome'.recordingID = outcome.recordingID
        /\ (outcome'.err = Nil
              \/ <<Sentinel(outcome'.err)>> # StoreErrDatabaseUnavailable)) =>
          /\ outcome.err = Nil
          /\ outcome'.err = Nil
          /\ outcome'.record = Submitted(outcome)]_vars

(***************************************************************************)
(* C20.  Writes are an upsert keyed by recording_id: once a transcription  *)
(* with a non-empty id and text has been processed, its embedding          *)
(* generated and the database reachable, the table holds for that id       *)
(* exactly the submitted text, tags and embedding, whether or not the id   *)
(* had a row before.                                                       *)
(***************************************************************************)
C20_UpsertByRecordingID ==
    [][Storable(outcome') =>
          /\ outcome'.recordingID \in DOMAIN rows'
          /\ rows'[outcome'.recordingID] =
                 [Submitted(outcome') EXCEPT !.embedding = vectorToString(@)]
          /\ \A i \in DOMAIN rows' \ {outcome'.recordingID} :
                 i \in DOMAIN rows /\ rows'[i] = rows[i]]_vars

(***************************************************************************)
(* C21.  GetRecord tells absence from a storage failure: for an id that    *)
(* has no row the result is ErrRecordNotFound unless the database is       *)
(* unreachable, a store error is never reported as ErrRecordNotFound, and  *)
(* a row that exists is returned.                                          *)
(***************************************************************************)
C21_NotFoundIsNotAFailure ==
    (outcome.op = "GetRecord" /\ outcome.recordingID # EmptyID) =>
        LET g == outcome.calls[1].ret IN
        /\ g.err # Nil =>
              /\ outcome.err = Wrap("failed to retrieve vector record", g.err)
              /\ outcome.err # CoreErrRecordNotFound
        /\ (outcome.recordingID \notin DOMAIN rows
               /\ g.err # StoreErrDatabaseUnavailable)
              => outcome.err = CoreErrRecordNotFound
        /\ (outcome.recordingID \in DOMAIN rows /\ g.err = Nil)
              => /\ outcome.err = Nil
                 /\ outcome.record.recording_id = outcome.recordingID

(***************************************************************************)
(* The query service.                                                      *)
(***************************************************************************)
QueryErrInvalidQuery    == <<"query core.ErrInvalidQuery">>
QueryErrEmbeddingFailed == <<"query core.ErrEmbeddingFailed">>
QueryErrSearchFailed    == <<"query core.ErrSearchFailed">>

\* fmt.Errorf("%w: %v", sentinel, err): the sentinel is wrapped, err is only
\* printed.
ErrorfWV(sentinel, err) == sentinel \o <<": ">> \o err

\* errors.Is on an error the query service returns
ErrorsIs(err, target) == err # Nil /\ <<Head(err)>> = target

DefaultLimit == 10

Limits     == {-1, 0, 1, DefaultLimit}
FilterTags == {{}, {"meeting"}, {"test"}}

QueryRequests ==
    [query_text : Texts, filter_tags : FilterTags, limit : Limits]

\* openai_adapter.Embedder of the query service: one CreateEmbeddings call,
\* the embedding of data[0] returned as it is.
QueryEmbedderGenerateEmbedding ==
    {[embedding |-> v, err |-> Nil] : v \in Vectors \cup {<<>>}}
        \cup {[embedding |-> <<>>,
                err |-> Wrap("failed to create embedding", <<"status 401">>)],
               [embedding |-> <<>>, err |-> <<"no embedding data returned">>]}

\* The database: its relations and the columns of transcriptions, as the
\* initialisation script and the embedder create them.
Relations == {"transcriptions"}
Columns ==
    {"recording_id", "transcribed_text", "tags", "embedding", "created_at",
     "updated_at"}

UndefinedTable  == <<"pq: relation does not exist">>
UndefinedColumn == <<"pq: column does not exist">>

\* The statement Searcher.Search builds: WHERE tags && ARRAY[...] only with
\* filter tags, ORDER BY similarity DESC LIMIT.
SearchQuery(req) ==
    [from |-> "embeddings",
     columns |-> {"recording_id", "transcribed_text", "tags", "metadata",
                  "embedding"},
     overlap |-> req.filter_tags,
     limit |-> req.limit]

\* 1 - (embedding <=> $1), in hundredths
Similarity(embedding, queryEmbedding) ==
    IF stringToVector(embedding) = queryEmbedding THEN 100 ELSE 50

Min(a, b) == IF a <= b THEN a ELSE b

\* db.QueryContext of a SELECT with a tag overlap, an order by similarity
\* and a limit: every result list PostgreSQL may give, or its error.
PostgresSelect(table, query, queryEmbedding, connected) ==
    IF ~connected THEN {[rows |-> <<>>, err |-> ConnectionRefused]}
    ELSE IF query.from \notin Relations
    THEN {[rows |-> <<>>, err |-> UndefinedTable]}
    ELSE IF ~(query.columns \subseteq Columns)
    THEN {[rows |-> <<>>, err |-> UndefinedColumn]}
    ELSE LET matching == {i \in DOMAIN table :
                             query.overlap = {}
                                 \/ table[i].tags \cap query.overlap # {}}
             k   == Min(query.limit, Cardinality(matching))
             sim(i) == Similarity(table[i].embedding, queryEmbedding)
         IN  {[rows |-> [n \in 1..k |->
                           [recording_id |-> s[n],
                            transcribed_text |-> table[s[n]].transcribed_text,
                            tags |-> table[s[n]].tags,
                            similarity |-> sim(s[n])]],
               err |-> Nil] :
              s \in {t \in [1..k -> matching] :
                        /\ \A a, b \in 1..k : a < b =>
                              t[a] # t[b] /\ sim(t[a]) >= sim(t[b])
                        /\ \A i \in matching \ {t[n] : n \in 1..k} :
                              \A n \in 1..k : sim(i) <= sim(t[n])}}

\* Every result Searcher.Search can return for the request.
SearcherSearch(table, req, connected) ==
    {IF q.err # Nil
     THEN [results |-> <<>>,
           err |-> Wrap("failed to execute search query", q.err)]
     ELSE [results |-> q.rows, err |-> Nil] :
     q \in PostgresSelect(table, SearchQuery(req), req.query_embedding,
                          connected)}

\* Faulty variants of Search: one that rejects only the empty text, one
\* that passes the limit on as it came, one that reports a failure of the
\* searcher as a failure of the embedding.
ServiceSearchUntrimmed(table, req, gen, connected) ==
    LET limit     == IF req.limit <= 0 THEN DefaultLimit ELSE req.limit
        generated == PortCall("GenerateEmbedding", req.query_text, gen)
        searchReq == [query_embedding |-> gen.embedding,
                      filter_tags |-> req.filter_tags, limit |-> limit]
    IN  IF req.query_text = <<>>
        THEN {[calls |-> <<>>, results |-> <<>>, err |-> QueryErrInvalidQuery]}
        ELSE IF gen.err # Nil
        THEN {[calls |-> <<generated>>, results |-> <<>>,
               err |-> ErrorfWV(QueryErrEmbeddingFailed, gen.err)]}
        ELSE {[calls |-> <<generated, PortCall("Search", searchReq, f)>>,
               results |-> f.results,
               err |-> IF f.err # Nil
                       THEN ErrorfWV(QueryErrSearchFailed, f.err) ELSE Nil] :
              f \in SearcherSearch(table, searchReq, connected)}

ServiceSearchLimitAsGiven(table, req, gen, connected) ==
    LET generated == PortCall("GenerateEmbedding", req.query_text, gen)
        searchReq == [query_embedding |-> gen.embedding,
                      filter_tags |-> req.filter_tags, limit |-> req.limit]
    IN  IF TrimSpace(req.query_text) = <<>>
        THEN {[calls |-> <<>>, results |-> <<>>, err |-> QueryErrInvalidQuery]}
        ELSE IF gen.err # Nil
        THEN {[calls |-> <<generated>>, results |-> <<>>,
               err |-> ErrorfWV(QueryErrEmbeddingFailed, gen.err)]}
        ELSE {[calls |-> <<generated, PortCall("Search", searchReq, f)>>,
               results |-> f.results,
               err |-> IF f.err # Nil
                       THEN ErrorfWV(QueryErrSearchFailed, f.err) ELSE Nil] :
              f \in SearcherSearch(table, searchReq, connected)}

ServiceSearchOneErrorClass(table, req, gen, connected) ==
    LET limit     == IF req.limit <= 0 THEN DefaultLimit ELSE req.limit
        generated == PortCall("GenerateEmbedding", req.query_text, gen)
        searchReq == [query_embedding |-> gen.embedding,
                      filter_tags |-> req.filter_tags, limit |-> limit]
    IN  IF TrimSpace(req.query_text) = <<>>
        THEN {[calls |-> <<>>, results |-> <<>>, err |-> QueryErrInvalidQuery]}
        ELSE IF gen.err # Nil
        THEN {[calls |-> <<generated>>, results |-> <<>>,
               err |-> ErrorfWV(QueryErrEmbeddingFailed, gen.err)]}
        ELSE {[calls |-> <<generated, PortCall("Search", searchReq, f)>>,
               results |-> f.results,
               err |-> IF f.err # Nil
                       THEN ErrorfWV(QueryErrEmbeddingFailed, f.err) ELSE Nil] :
              f \in SearcherSearch(table, searchReq, connected)}

\* core.Service.Search of the query service: every outcome, gen being the
\* result the embedding generator gives when called.
ServiceSearch(table, req, gen, connected) ==
    LET limit     == IF req.limit <= 0 THEN DefaultLimit ELSE req.limit
        generated == PortCall("GenerateEmbedding", req.query_text, gen)
        searchReq == [query_embedding |-> gen.embedding,
                      filter_tags |-> req.filter_tags, limit |-> limit]
    IN  IF TrimSpace(req.query_text) = <<>>
        THEN {[calls |-> <<>>, results |-> <<>>, err |-> QueryErrInvalidQuery]}
        ELSE IF gen.err # Nil
        THEN {[calls |-> <<generated>>, results |-> <<>>,
               err |-> ErrorfWV(QueryErrEmbeddingFailed, gen.err)]}
        ELSE {[calls |-> <<generated, PortCall("Search", searchReq, f)>>,
               results |-> f.results,
               err |-> IF f.err # Nil
                       THEN ErrorfWV(QueryErrSearchFailed, f.err) ELSE Nil] :
              f \in SearcherSearch(table, searchReq, connected)}

Search ==
    \E req \in QueryRequests, gen \in QueryEmbedderGenerateEmbedding,
       connected \in BOOLEAN :
      \E r \in ServiceSearch(rows, req, gen, connected) :
        /\ searched' = [op |-> "Search", req |-> req, calls |-> r.calls,
                        results |-> r.results, err |-> r.err]
        /\ UNCHANGED <<response, transcriberVars, recorderVars, embedderVars,
                       adapterVars,
                   corrVars>>

QueryErrDatabaseUnavailable == <<"query core.ErrDatabaseUnavailable">>

\* The status queryHandler gives an error of Search: err is compared with
\* the sentinels by ==.
QueryHandlerStatus(err) ==
    IF err = QueryErrInvalidQuery THEN 400
    ELSE IF err = QueryErrDatabaseUnavailable THEN 503
    ELSE 500

\* Handler.queryHandler around its call of Search (the action above, whose
\* request is the decoded body with the limit parameter applied): a body
\* that does not decode is answered without a search, and what Search
\* returned is turned into the response.
QueryHandler ==
    /\ \/ response' = [status |-> 400, count |-> 0,
                        err |-> <<"Invalid request body">>]
       \/ /\ searched.op = "Search"
          /\ response' =
                IF searched.err # Nil
                THEN [status |-> QueryHandlerStatus(searched.err),
                      count |-> 0, err |-> searched.err]
                ELSE [status |-> 200, count |-> Len(searched.results),
                      err |-> Nil]
    /\ UNCHANGED <<searched, transcriberVars, recorderVars, embedderVars,
                   adapterVars,
                   corrVars>>

QueryNext ==
    \/ InitScript
    \/ Search
    \/ QueryHandler

QuerySpec == Init /\ [][QueryNext]_vars

(***************************************************************************)
(* Vocabulary of the properties of the query service.                      *)
(***************************************************************************)
\* The text passes the validation of Search.
ValidQuery(req) == TrimSpace(req.query_text) # <<>>

SearcherCalls(s) == {i \in DOMAIN s.calls : s.calls[i].port = "Search"}

(***************************************************************************)
(* C22.  Search with an empty or whitespace-only query_text returns        *)
(* ErrInvalidQuery and calls neither the embedding generator nor the       *)
(* vector searcher.                                                        *)
(***************************************************************************)
C22_BlankQueryRejected ==
    (/\ searched.op = "Search"
     /\ \A i \in DOMAIN searched.req.query_text :
            searched.req.query_text[i] = " ") =>
        /\ searched.err = QueryErrInvalidQuery
        /\ searched.calls = <<>>
        /\ searched.results = <<>>

C22_Witness ==
    /\ searched.op = "Search"
    /\ searched.req.query_text = <<" ">>
    /\ searched.req.limit = DefaultLimit
    /\ searched.err = QueryErrInvalidQuery

(***************************************************************************)
(* C23.  Search with limit 0 or a negative limit sends the vector searcher *)
(* the request that Search with limit 10 sends, and returns what Search    *)
(* with limit 10 returns from the same ports; a positive limit reaches     *)
(* the searcher unchanged.                                                 *)
(***************************************************************************)
C23_DefaultLimit ==
    [][searched' # searched =>
        LET req == searched'.req
            out == [calls |-> searched'.calls, results |-> searched'.results,
                    err |-> searched'.err]
        IN  /\ \A i \in SearcherCalls(searched') :
                  /\ searched'.calls[i].arg.limit =
                         IF req.limit <= 0 THEN DefaultLimit ELSE req.limit
                  /\ searched'.calls[i].arg.filter_tags = req.filter_tags
            /\ req.limit <= 0 =>
                  \E gen \in QueryEmbedderGenerateEmbedding,
                     connected \in BOOLEAN :
                      /\ searched'.calls # <<>> => gen = searched'.calls[1].ret
                      /\ out \in ServiceSearch(rows,
                                    [req EXCEPT !.limit = DefaultLimit],
                                    gen, connected)]_vars

\* A search with a negative limit reached the searcher.
C23_Witness ==
    /\ searched.op = "Search"
    /\ searched.req.limit < 0
    /\ \E i \in SearcherCalls(searched) :
          searched.calls[i].arg.limit = DefaultLimit

(***************************************************************************)
(* C24.  Search tells its two failures apart: when the embedding call      *)
(* fails the error is ErrEmbeddingFailed and the vector searcher is not    *)
(* called; when the vector searcher fails the error is ErrSearchFailed;    *)
(* neither error is ever the other.                                        *)
(***************************************************************************)
QueryEmbeddingFailed(s) ==
    \E i \in PortCalls(s, "GenerateEmbedding") : s.calls[i].ret.err # Nil

SearcherFailed(s) ==
    \E i \in SearcherCalls(s) : s.calls[i].ret.err # Nil

C24_FailuresClassified ==
    searched.op = "Search" =>
        /\ QueryEmbeddingFailed(searched) =>
              /\ ErrorsIs(searched.err, QueryErrEmbeddingFailed)
              /\ SearcherCalls(searched) = {}
        /\ SearcherFailed(searched) =>
              ErrorsIs(searched.err, QueryErrSearchFailed)
        /\ ErrorsIs(searched.err, QueryErrEmbeddingFailed) =>
              /\ QueryEmbeddingFailed(searched)
              /\ ~ErrorsIs(searched.err, QueryErrSearchFailed)
        /\ ErrorsIs(searched.err, QueryErrSearchFailed) =>
              /\ SearcherFailed(searched)
              /\ ~QueryEmbeddingFailed(searched)
              /\ ~ErrorsIs(searched.err, QueryErrEmbeddingFailed)

\* The searcher failed with the database unreachable.
C24_Witness ==
    /\ searched.op = "Search"
    /\ SearcherFailed(searched)
    /\ \E i \in SearcherCalls(searched) :
          Sentinel(searched.calls[i].ret.err) = ConnectionRefused[1]
    /\ ErrorsIs(searched.err, QueryErrSearchFailed)

\* A search with a valid text whose embedding was generated and whose
\* database answered.
Answerable(s) ==
    /\ s.op = "Search"
    /\ ValidQuery(s.req)
    /\ PortCalls(s, "GenerateEmbedding") # {}
    /\ ~QueryEmbeddingFailed(s)
    /\ s.calls[1].ret.embedding # <<>>
    /\ \A i \in SearcherCalls(s) :
          \/ s.calls[i].ret.err = Nil
          \/ Sentinel(s.calls[i].ret.err) # ConnectionRefused[1]

EffectiveLimit(req) == IF req.limit <= 0 THEN DefaultLimit ELSE req.limit

\* The stored records a filter selects: those sharing a tag with it, all of
\* them when it is empty.
Selected(table, filter) ==
    {i \in DOMAIN table : filter = {} \/ table[i].tags \cap filter # {}}

(***************************************************************************)
(* C25.  Tag filtering is a logical OR: a search whose limit is at least   *)
(* the number of stored records returns exactly the records, of those      *)
(* stored when it ran, that share a tag with filter_tags, and all of them  *)
(* when filter_tags is empty.                                              *)
(***************************************************************************)
C25_FilterIsOverlap ==
    [][(/\ searched' # searched
        /\ Answerable(searched')
        /\ EffectiveLimit(searched'.req) >= Cardinality(DOMAIN rows)) =>
           /\ searched'.err = Nil
           /\ {searched'.results[n].recording_id :
                    n \in DOMAIN searched'.results}
                 = Selected(rows, searched'.req.filter_tags)]_vars

(***************************************************************************)
(* C26.  The list Search returns is ordered by non-increasing similarity   *)
(* and has as many entries as the effective limit allows: the limit, or    *)
(* the number of matching records when that is smaller.                    *)
(***************************************************************************)
C26_RankedAndTruncated ==
    [][(searched' # searched /\ Answerable(searched')) =>
           /\ searched'.err = Nil
           /\ Len(searched'.results) =
                 Min(EffectiveLimit(searched'.req),
                     Cardinality(Selected(rows, searched'.req.filter_tags)))
           /\ \A a, b \in DOMAIN searched'.results :
                 a < b => searched'.results[a].similarity
                             >= searched'.results[b].similarity]_vars

(***************************************************************************)
(* The attempt loops of openai_adapter.Transcriber.TranscribeAudio and     *)
(* openai_adapter.Embedder.GenerateEmbedding, one attempt per step, for    *)
(* every value config.MaxRetries may be given.                             *)
(***************************************************************************)
MaxRetryBudget == 3

\* WithMaxRetries(n): any int.
RetryBudgets == -1..MaxRetryBudget

\* The size limit of TranscribeAudio, in bytes.
MaxAudioBytes == 25 * 1024 * 1024

\* len(audioBytes) of the calls made: nothing, and the sizes around the limit.
AudioSizes == {0, MaxAudioBytes - 1, MaxAudioBytes, MaxAudioBytes + 1}

\* What io.ReadAll(audioData) returns: the bytes, or what it read and the
\* reader's error.
AudioReads ==
    [audioBytes : AudioSizes, readErr : {Nil}]
        \cup [audioBytes : {0}, readErr : {<<"io">>}]

\* A check that also refuses audio of exactly the limit.
AudioLimitReached(size) == size >= MaxAudioBytes

\* len(audioBytes) > 25*1024*1024
AudioTooLarge(size) == size > MaxAudioBytes

Adapters == {"Transcriber", "Embedder"}

\* What one HTTP exchange can give an attempt.
AttemptFailures == {-1, 0, 401, 429, 503}

AttemptResponses(adapter) ==
    IF adapter = "Transcriber"
    THEN [status : {200}, text : Texts]
            \cup [status : AttemptFailures, text : {<<>>}]
    ELSE [status : {200}, embedding : Vectors \cup {<<>>}]
            \cup [status : AttemptFailures, embedding : {<<>>}]

\* t.transcribeWithRetry(ctx, audioBytes, format) / e.generateWithRetry(ctx, text)
AttemptOnce(adapter, resp) ==
    IF adapter = "Transcriber"
    THEN LET r == transcribeWithRetry(resp) IN [value |-> r.text, err |-> r.err]
    ELSE LET r == generateWithRetry(resp)
         IN  [value |-> r.embedding, err |-> r.err]

NonRetryable(adapter, err) ==
    IF adapter = "Transcriber" THEN isNonRetryableError(err)
    ELSE EmbedderIsNonRetryableError(err)

\* The error returned after the loop.
FailedAfterAttempts(adapter, lastErr) ==
    IF adapter = "Transcriber"
    THEN Wrap("transcription failed after attempts", lastErr)
    ELSE Wrap("embedding generation failed after attempts", lastErr)

\* A loop that tests its condition after the first attempt.
LoopAtLeastOnce(attempt, maxRetries) == attempt = 1 \/ attempt <= maxRetries

\* A loop that makes one attempt more than configured.
LoopOneMore(attempt, maxRetries) == attempt <= maxRetries + 1

\* for attempt := 1; attempt <= config.MaxRetries; attempt++
LoopContinues(attempt, maxRetries) == attempt <= maxRetries

AdapterReturns(c, value, err) ==
    [c EXCEPT !.pc = "returned", !.value = value, !.err = err]

\* Transcriber.TranscribeAudio up to the loop: audio that cannot be read
\* and audio over 25MB are refused.
Transcriber_TranscribeAudio ==
    /\ adapterCall.pc # "loop"
    /\ \E n \in RetryBudgets, read \in AudioReads :
          LET c == [NoAdapterCall EXCEPT !.adapter = "Transcriber",
                                         !.maxRetries = n,
                                         !.readErr = read.readErr,
                                         !.audioBytes = read.audioBytes]
          IN  adapterCall' =
                  IF read.readErr # Nil
                  THEN AdapterReturns(c, <<>>,
                           Wrap("failed to read audio data", read.readErr))
                  ELSE IF AudioTooLarge(read.audioBytes)
                  THEN AdapterReturns(c, <<>>, <<"ErrAudioTooLarge">>)
                  ELSE [c EXCEPT !.pc = "loop", !.attempt = 1]
    /\ UNCHANGED <<transcriberVars, recorderVars, embedderVars, queryVars,
                   corrVars>>

\* Embedder.GenerateEmbedding up to the loop: an empty text is refused.
Embedder_GenerateEmbedding ==
    /\ adapterCall.pc # "loop"
    /\ \E n \in RetryBudgets, text \in Texts :
          LET c == [NoAdapterCall EXCEPT !.adapter = "Embedder",
                                         !.maxRetries = n,
                                         !.text = text]
          IN  adapterCall' =
                  IF text = <<>>
                  THEN AdapterReturns(c, <<>>, EmbedderErrEmptyText)
                  ELSE [c EXCEPT !.pc = "loop", !.attempt = 1]
    /\ UNCHANGED <<transcriberVars, recorderVars, embedderVars, queryVars,
                   corrVars>>

\* One iteration of the loop: return on success, break on an error that is
\* not retried, go round again otherwise.
Adapter_Attempt ==
    /\ adapterCall.pc = "loop"
    /\ LoopContinues(adapterCall.attempt, adapterCall.maxRetries)
    /\ \E resp \in AttemptResponses(adapterCall.adapter) :
          LET r == AttemptOnce(adapterCall.adapter, resp)
              c == [adapterCall EXCEPT !.tried = Append(@, r)]
          IN  adapterCall' =
                  IF r.err = Nil
                  THEN AdapterReturns(c, r.value, Nil)
                  ELSE IF NonRetryable(c.adapter, r.err)
                  THEN AdapterReturns([c EXCEPT !.lastErr = r.err], <<>>,
                                      FailedAfterAttempts(c.adapter, r.err))
                  ELSE [c EXCEPT !.lastErr = r.err, !.attempt = @ + 1]
    /\ UNCHANGED <<transcriberVars, recorderVars, embedderVars, queryVars,
                   corrVars>>

\* The loop condition fails: the call returns the last error, wrapped.
Adapter_GiveUp ==
    /\ adapterCall.pc = "loop"
    /\ ~LoopContinues(adapterCall.attempt, adapterCall.maxRetries)
    /\ adapterCall' =
          AdapterReturns(adapterCall, <<>>,
              FailedAfterAttempts(adapterCall.adapter, adapterCall.lastErr))
    /\ UNCHANGED <<transcriberVars, recorderVars, embedderVars, queryVars,
                   corrVars>>

AdapterNext ==
    \/ Transcriber_TranscribeAudio
    \/ Embedder_GenerateEmbedding
    \/ Adapter_Attempt
    \/ Adapter_GiveUp

AdapterSpec == Init /\ [][AdapterNext]_vars

\* The loop runs in the caller's goroutine, every attempt ends (the client
\* has a timeout) and every wait between attempts is finite.
AdapterLiveSpec == AdapterSpec /\ WF_vars(Adapter_Attempt \/ Adapter_GiveUp)

(***************************************************************************)
(* Vocabulary of the properties of the adapters.                           *)
(***************************************************************************)
AuthenticationErrors == {ErrAPIKeyInvalid, EmbedderErrAPIKeyInvalid}

\* Quota exceeded, service unavailable, request timed out.
TransientErrors ==
    {ErrQuotaExceeded, ErrServiceUnavailable, ErrRequestTimeout,
     EmbedderErrQuotaExceeded, EmbedderErrServiceUnavailable,
     EmbedderErrRequestTimeout}

(***************************************************************************)
(* C27.  An attempt that fails with ErrAPIKeyInvalid is the last attempt   *)
(* of its call, whatever MaxRetries is, and the call returns an error;     *)
(* after an attempt that fails with a quota, unavailability or timeout     *)
(* error the loop goes on while the budget lasts.                          *)
(***************************************************************************)
C27_AuthNeverRetried ==
    \A i \in DOMAIN adapterCall.tried :
        LET e == adapterCall.tried[i].err IN
        /\ e \in AuthenticationErrors =>
              /\ i = Len(adapterCall.tried)
              /\ adapterCall.pc = "returned"
              /\ adapterCall.err # Nil
              /\ Sentinel(adapterCall.err) = e[1]
        /\ (e \in TransientErrors /\ i < adapterCall.maxRetries) =>
              \/ Len(adapterCall.tried) > i
              \/ /\ adapterCall.pc = "loop"
                 /\ adapterCall.attempt = i + 1

\* The key was refused on the second of three attempts allowed.
C27_Witness ==
    /\ adapterCall.pc = "returned"
    /\ adapterCall.maxRetries = 3
    /\ Len(adapterCall.tried) = 2
    /\ adapterCall.tried[1].err \in TransientErrors
    /\ adapterCall.tried[2].err \in AuthenticationErrors

(***************************************************************************)
(* C28.  With MaxRetries = N >= 1 a call makes at most N attempts, no      *)
(* attempt follows a successful one, the call returns the successful       *)
(* attempt's result, a call whose N attempts all failed returns an error   *)
(* that wraps the last attempt's error, and every call returns.            *)
(***************************************************************************)
RetryBounded ==
    LET c == adapterCall
        n == Len(c.tried)
    IN  c.maxRetries >= 1 =>
            /\ n <= c.maxRetries
            /\ \A i \in 1..(n - 1) : c.tried[i].err # Nil
            /\ (c.pc = "returned" /\ n > 0 /\ c.tried[n].err = Nil) =>
                  /\ c.err = Nil
                  /\ c.value = c.tried[n].value
            /\ (c.pc = "returned" /\ n = c.maxRetries
                    /\ c.tried[n].err # Nil) =>
                  /\ c.err # Nil
                  /\ Tail(c.err) = c.tried[n].err

C28_RetryLoopBounded ==
    /\ []RetryBounded
    /\ (adapterCall.pc = "loop") ~> (adapterCall.pc = "returned")

\* Every attempt allowed was made and failed with an error that is retried.
C28_Witness ==
    /\ adapterCall.pc = "returned"
    /\ adapterCall.maxRetries = 3
    /\ Len(adapterCall.tried) = 3
    /\ \A i \in 1..3 : adapterCall.tried[i].err \in TransientErrors
    /\ Tail(adapterCall.err) = adapterCall.tried[3].err

(***************************************************************************)
(* C35.  A call of TranscribeAudio with audio larger than 25 MiB returns   *)
(* the bare ErrAudioTooLarge and a call of GenerateEmbedding with empty    *)
(* text returns the bare ErrEmptyText, each without an attempt; audio of   *)
(* exactly 25 MiB is not refused: the call enters the loop.                *)
(***************************************************************************)
C35_InputChecksBeforeLoop ==
    LET c == adapterCall
    IN  /\ (c.adapter = "Transcriber" /\ c.readErr = Nil
                /\ c.audioBytes > MaxAudioBytes) =>
              /\ c.pc = "returned"
              /\ c.tried = <<>>
              /\ c.err = <<"ErrAudioTooLarge">>
        /\ (c.adapter = "Transcriber" /\ c.readErr = Nil
                /\ c.audioBytes = MaxAudioBytes) =>
              /\ c.err # <<"ErrAudioTooLarge">>
              /\ c.maxRetries >= 1 => (c.pc = "loop" \/ Len(c.tried) >= 1)
        /\ (c.adapter = "Embedder" /\ c.text = <<>>) =>
              /\ c.pc = "returned"
              /\ c.tried = <<>>
              /\ c.err = EmbedderErrEmptyText

\* Audio of exactly 25 MiB has been transcribed.
C35_Witness ==
    /\ adapterCall.adapter = "Transcriber"
    /\ adapterCall.audioBytes = MaxAudioBytes
    /\ adapterCall.pc = "returned"
    /\ adapterCall.err = Nil
    /\ Len(adapterCall.tried) = 1

\* Audio of one byte more has been refused.
C35_WitnessTooLarge ==
    /\ adapterCall.adapter = "Transcriber"
    /\ adapterCall.audioBytes = MaxAudioBytes + 1
    /\ adapterCall.pc = "returned"
    /\ adapterCall.maxRetries = MaxRetries

(***************************************************************************)
(* C39.  With MaxRetries zero or negative a call makes no attempt, and a   *)
(* call on valid input (audio read and within the limit, text not empty)   *)
(* returns an error.                                                       *)
(***************************************************************************)
ValidInput(c) ==
    IF c.adapter = "Transcriber"
    THEN c.readErr = Nil /\ c.audioBytes <= MaxAudioBytes
    ELSE c.adapter = "Embedder" /\ c.text # <<>>

C39_NoBudgetNoAttempt ==
    LET c == adapterCall
    IN  c.maxRetries <= 0 =>
            /\ c.tried = <<>>
            /\ (c.pc = "returned" /\ ValidInput(c)) => c.err # Nil

\* A call with MaxRetries -1 on valid input has returned.
C39_Witness ==
    /\ adapterCall.pc = "returned"
    /\ adapterCall.maxRetries = -1
    /\ ValidInput(adapterCall)
    /\ adapterCall.err =
          FailedAfterAttempts(adapterCall.adapter, Nil)

(***************************************************************************)
(* C32.  queryHandler answers ErrInvalidQuery with 400, and a request      *)
(* whose embedding failed with another status than a request whose search  *)
(* failed.                                                                 *)
(***************************************************************************)
C32_StatusPerFailureClass ==
    [][/\ response'.err = QueryErrInvalidQuery => response'.status = 400
       /\ (/\ ErrorsIs(response.err, QueryErrEmbeddingFailed)
           /\ ErrorsIs(response'.err, QueryErrSearchFailed)) =>
              response.status # response'.status]_vars

(***************************************************************************)
(* Correlation ids along a chain of calls: core.Service.StopRecording into *)
(* TranscribeAudio in the transcriber, core.Service.HandleTranscriptionEvent *)
(* into ProcessTranscription in the embedder.                              *)
(***************************************************************************)
MaxCorrelations == 3

\* uuid.New().String()
GeneratedIDs == 1..MaxCorrelations

\* What the inbound context carries: nothing, or an id the transport set.
InboundIDs == {NoCorrelation, MaxCorrelations + 1, MaxCorrelations + 2}

\* Service.getCorrelationID: the id in the context, a new one when there
\* is none.
getCorrelationID(ctxValue, fresh) ==
    IF ctxValue # NoCorrelation THEN ctxValue ELSE fresh

\* The values uuid.New() can give a lookup on ctxValue, and what the lookup
\* adds to the ids minted: none when the context carries an id.
Lookups(ctxValue) ==
    IF ctxValue # NoCorrelation
    THEN {[id |-> getCorrelationID(ctxValue, NoCorrelation), new |-> {}]}
    ELSE {[id |-> getCorrelationID(ctxValue, u), new |-> {u}] :
            u \in GeneratedIDs \ minted}

\* StopRecording with transcribe_on_stop, up to its call of TranscribeAudio:
\* the ctx it was given is the ctx it passes on.
Transcriber_StopRecording_Begin ==
    /\ correlated.pc # "called"
    /\ \E inbound \in InboundIDs : \E l \in Lookups(inbound) :
          /\ correlated' = [service |-> "transcriber", pc |-> "called",
                            inbound |-> inbound, ctx |-> inbound,
                            caller |-> l.id, callee |-> NoCorrelation]
          /\ minted' = minted \cup l.new
    /\ UNCHANGED <<transcriberVars, recorderVars, embedderVars, queryVars,
                   adapterVars>>

\* HandleTranscriptionEvent up to its call of ProcessTranscription: it puts
\* its correlation id into the ctx it passes on.
Embedder_HandleTranscriptionEvent_Begin ==
    /\ correlated.pc # "called"
    /\ \E inbound \in InboundIDs : \E l \in Lookups(inbound) :
          /\ correlated' = [service |-> "embedder", pc |-> "called",
                            inbound |-> inbound, ctx |-> l.id,
                            caller |-> l.id, callee |-> NoCorrelation]
          /\ minted' = minted \cup l.new
    /\ UNCHANGED <<transcriberVars, recorderVars, embedderVars, queryVars,
                   adapterVars>>

\* The call chained into, TranscribeAudio or ProcessTranscription, looks its
\* correlation id up in the ctx it was given.
Chained_getCorrelationID ==
    /\ correlated.pc = "called"
    /\ \E l \in Lookups(correlated.ctx) :
          /\ correlated' = [correlated EXCEPT !.pc = "returned",
                                              !.callee = l.id]
          /\ minted' = minted \cup l.new
    /\ UNCHANGED <<transcriberVars, recorderVars, embedderVars, queryVars,
                   adapterVars>>

CorrelationNext ==
    \/ Transcriber_StopRecording_Begin
    \/ Embedder_HandleTranscriptionEvent_Begin
    \/ Chained_getCorrelationID

CorrelationSpec == Init /\ [][CorrelationNext]_vars

(***************************************************************************)
(* C33.  The call a call chains into uses its caller's correlation id,     *)
(* also when the caller generated the id.                                  *)
(***************************************************************************)
C33_OneCorrelationID ==
    correlated.pc = "returned" => correlated.callee = correlated.caller

====
